---- MODULE Spec2Model ----
(***************************************************************************)
(* A model of the streaming HPROF reader of run-slicer/hprof:              *)
(*   src/src/buffer.ts  - the chunked read buffer (wrap, ensure, get, skip) *)
(*   src/src/index.ts   - the record decoder (lines 388-1070: idReader,     *)
(*                        valueSize, readSubRecord, readRecord, read)       *)
(* The source is a byte stream cut into chunks; the buffer's view is always *)
(* a contiguous slice of that stream, so it is kept as (base, len) into the *)
(* stream plus the read offset `off` and the index `next` of the next chunk *)
(* the source will deliver.                                                 *)
(***************************************************************************)
EXTENDS Integers, Sequences, FiniteSets, TLC

VARIABLES
    stream,     \* the bytes of the source, in order
    chunks,     \* the lengths of the chunks the source delivers, in order
    flags,      \* the flags argument of read()
    vis,        \* the visitor's shape (which callbacks it registers)
    buffer,     \* the Buffer object: view (base, len), offset, reader position, error
    pc,         \* where read() is
    idSize,     \* ctx.idSize, as read from the header
    rec,        \* the frame of the record being decoded: tag, tsDelta, length
    remaining,  \* the running count of the heap-dump sub-record loop
    frameEnd,   \* cursor position right after the current record's frame
    subSum,     \* sum of the lengths readSubRecord returned for the current record
    err,        \* the error read() rejected with ("" while none)
    eofAt,      \* where the EOF that ended the record loop was raised
    log,        \* the visitor callbacks invoked so far, in order
    cancels,    \* number of reader.cancel() calls
    lastOp,     \* the last buffer operation applied (buffer-level specification)
    shape,      \* how the stream was built: its record frames, whether it is well formed
    trail,      \* the cursor positions at which the record frames read so far began
    first,      \* what an earlier call of read() on the same bytes ended with
    pair,       \* what differs between two calls of read() on the same bytes
    agg         \* the slurp() visitor: idSize, the objArrays map, entries

vars == <<stream, chunks, flags, vis, buffer, pc, idSize, rec, remaining,
          frameEnd, subSum, err, eofAt, log, cancels, lastOp, shape, trail, first, pair,
          agg>>

(***************************************************************************)
(* Bounds and constants                                                    *)
(***************************************************************************)

\* buffer.ts:5 sets MIN_READ to 20 MiB; the model scales it down so that a
\* stream can be both shorter and longer than one minimum refill.  The header
\* of every modelled stream stays shorter than MIN_READ, as the real 31-byte
\* header is shorter than 20 MiB.
MIN_READ == 16

\* number of top-level records in a modelled stream
MaxRecords == 2

\* largest chunk count of the buffer-level specification's sources
MaxBufChunks == 3

Max(a, b) == IF a >= b THEN a ELSE b

RECURSIVE SumSeq(_)
SumSeq(s) == IF s = <<>> THEN 0 ELSE Head(s) + SumSeq(Tail(s))

RECURSIVE Flatten(_)
Flatten(ss) == IF ss = <<>> THEN <<>> ELSE Head(ss) \o Flatten(Tail(ss))

(***************************************************************************)
(* The chunk source (ReadableStreamDefaultReader)                          *)
(***************************************************************************)

\* stream offset at which chunk i starts (i may be Len(chunks)+1: the end)
RECURSIVE ChunkStart(_, _)
ChunkStart(cs, i) == IF i <= 1 THEN 0 ELSE cs[i - 1] + ChunkStart(cs, i - 1)

\* reader.read() reports done once every chunk was delivered
SourceDone(b) == b.next > Len(chunks)

\* bytes the source has not delivered yet
SourceLeft(b) == ChunkStart(chunks, Len(chunks) + 1) - ChunkStart(chunks, b.next)

(***************************************************************************)
(* buffer.ts                                                               *)
(***************************************************************************)

\* wrap(): an empty view, offset 0, a fresh reader
wrap == [base |-> 0, len |-> 0, off |-> 0, next |-> 1, err |-> ""]

\* bytes of the view not read yet
Unread(b) == b.len - b.off

\* absolute position of the cursor in the stream
Cursor(b) == b.base + b.off

\* the while loop of ensure: pulls chunks from index k on, with acc bytes
\* gathered so far, until toRead bytes are gathered or the source is done.
\* Yields the index after the last pulled chunk and the gathered length, or
\* done = TRUE when reader.read() reported done first.
RECURSIVE PullChunks(_, _, _)
PullChunks(k, acc, toRead) ==
    IF ~(toRead > acc) THEN [done |-> FALSE, next |-> k, got |-> acc]
    ELSE IF k > Len(chunks) THEN [done |-> TRUE, next |-> k, got |-> acc]
    ELSE PullChunks(k + 1, acc + chunks[k], toRead)

\* ensure building the new view from the pulled chunks alone
ensureDroppingTail(b, length) ==
    LET refill(chunksLength, p) ==
            IF p.done
            THEN [b EXCEPT !.err = "EOF", !.next = p.next]
            ELSE [base |-> ChunkStart(chunks, b.next),
                  len |-> p.got - chunksLength, off |-> 0, next |-> p.next, err |-> ""]
        pull(chunksLength, toRead) ==
            refill(chunksLength, PullChunks(b.next, chunksLength, toRead))
    IN  IF b.err # "" THEN b
        ELSE IF ~(b.off + length > b.len) THEN b
        ELSE pull(IF b.off < b.len THEN b.len - b.off ELSE 0, Max(length, MIN_READ))

\* ensure(buffer, length)
ensure(b, length) ==
    LET refill(chunksLength, p) ==
            IF p.done
            THEN [b EXCEPT !.err = "EOF", !.next = p.next]
            ELSE [base |-> IF chunksLength > 0 THEN b.base + b.off
                           ELSE ChunkStart(chunks, b.next),
                  len |-> p.got, off |-> 0, next |-> p.next, err |-> ""]
        pull(chunksLength, toRead) ==
            refill(chunksLength, PullChunks(b.next, chunksLength, toRead))
    IN  IF b.err # "" THEN b
        ELSE IF ~(b.off + length > b.len) THEN b
        ELSE pull(IF b.off < b.len THEN b.len - b.off ELSE 0, Max(length, MIN_READ))

\* the cursor moves n bytes inside the view
Advance(b, n) == IF b.err # "" THEN b ELSE [b EXCEPT !.off = b.off + n]

\* get(length): ensure, then a slice of the view; a negative length makes the
\* Uint8Array constructor throw a RangeError
get(b, length) ==
    LET slice(e) == IF e.err # "" THEN e
                    ELSE IF length < 0 THEN [e EXCEPT !.err = "RangeError"]
                    ELSE Advance(e, length)
    IN  slice(ensure(b, length))

\* skip joining each pulled chunk to the unread bytes of the view
RECURSIVE skipJoining(_, _)
skipJoining(b, length) ==
    IF b.err # "" THEN b
    ELSE IF ~(length > 0) THEN b
    ELSE IF b.len - b.off >= length THEN [b EXCEPT !.off = b.off + length]
    ELSE IF SourceDone(b) THEN [b EXCEPT !.err = "EOF"]
    ELSE skipJoining([base |-> b.base + b.off, len |-> (b.len - b.off) + chunks[b.next],
                      off |-> 0, next |-> b.next + 1, err |-> ""],
                     length)

\* skip(length)
RECURSIVE skip(_, _)
skip(b, length) ==
    IF b.err # "" THEN b
    ELSE IF ~(length > 0) THEN b
    ELSE IF b.len - b.off >= length THEN [b EXCEPT !.off = b.off + length]
    ELSE IF SourceDone(b) THEN [b EXCEPT !.err = "EOF"]
    ELSE skip([base |-> ChunkStart(chunks, b.next), len |-> chunks[b.next],
               off |-> 0, next |-> b.next + 1, err |-> ""],
              length - (b.len - b.off))

\* big-endian unsigned value of the w bytes at pos (DataView.getUintN)
RECURSIVE BE(_, _, _)
BE(pos, w, acc) ==
    IF w = 0 THEN acc ELSE BE(pos + 1, w - 1, acc * 256 + stream[pos + 1])

\* 255 - byte, folded big-endian: the magnitude minus one of a negative
\* two's-complement number
RECURSIVE BEneg(_, _, _)
BEneg(pos, w, acc) ==
    IF w = 0 THEN acc ELSE BEneg(pos + 1, w - 1, acc * 256 + (255 - stream[pos + 1]))

\* big-endian two's-complement value of the w bytes at pos (DataView.getIntN):
\* FF..FF is -1
SignedBE(pos, w) ==
    IF stream[pos + 1] >= 128 THEN -(BEneg(pos, w, 0)) - 1 ELSE BE(pos, w, 0)

\* the w bytes at pos as big-endian base-65536 digits (w even); a 64-bit
\* value does not fit TLC's 32-bit integers, so it is kept as digits
Digits(pos, w) ==
    [i \in 1..(w \div 2) |-> stream[pos + 2 * i - 1] * 256 + stream[pos + 2 * i]]

\* the same bytes read as a two's-complement number: the leading digit is
\* signed, so the value is negative exactly when the leading digit is
SignedDigits(pos, w) ==
    [i \in 1..(w \div 2) |->
        IF i = 1 /\ stream[pos + 1] >= 128
        THEN stream[pos + 1] * 256 + stream[pos + 2] - 65536
        ELSE stream[pos + 2 * i - 1] * 256 + stream[pos + 2 * i]]

\* a typed read: ensure(width), the value at the offset, offset += width.
\* Every value is a sequence of integers: one integer for a JS number, digits
\* for a bigint or a float (whose bit pattern is kept)
typedRead(b, w, kind) ==
    LET value(pos) ==
            CASE kind = "uint" -> <<BE(pos, w, 0)>>
              [] kind = "int" -> <<SignedBE(pos, w)>>
              [] kind = "biguint" -> Digits(pos, w)
              [] kind = "bigint" -> SignedDigits(pos, w)
              [] kind = "float" -> Digits(pos, w)
        read(e) == IF e.err # "" THEN [b |-> e, v |-> <<>>]
                   ELSE [b |-> Advance(e, w), v |-> value(Cursor(e))]
    IN  read(ensure(b, w))

getUint8(b) == typedRead(b, 1, "uint")
getUint16(b) == typedRead(b, 2, "uint")
getUint32(b) == typedRead(b, 4, "uint")
getInt32(b) == typedRead(b, 4, "int")
getBigUint64(b) == typedRead(b, 8, "biguint")
getBigInt64(b) == typedRead(b, 8, "bigint")
getFloat32(b) == typedRead(b, 4, "float")
getFloat64(b) == typedRead(b, 8, "float")

\* take(termValue): bytes up to the terminator, which is consumed
RECURSIVE take(_, _, _)
take(b, termValue, result) ==
    LET step(r) == IF r.b.err # "" THEN [b |-> r.b, v |-> result]
                   ELSE IF r.v[1] = termValue THEN [b |-> r.b, v |-> result]
                   ELSE take(r.b, termValue, Append(result, r.v[1]))
    IN  step(getUint8(b))

(***************************************************************************)
(* index.ts: tags, types, flags                                            *)
(***************************************************************************)

UTF8 == 1
LOAD_CLASS == 2
UNLOAD_CLASS == 3
FRAME == 4
TRACE == 5
ALLOC_SITES == 6
HEAP_SUMMARY == 7
START_THREAD == 10
END_THREAD == 11
HEAP_DUMP == 12
CPU_SAMPLES == 13
CONTROL_SETTINGS == 14
HEAP_DUMP_SEGMENT == 28
HEAP_DUMP_END == 44

GC_ROOT_UNKNOWN == 255
GC_ROOT_JNI_GLOBAL == 1
GC_ROOT_JNI_LOCAL == 2
GC_ROOT_JAVA_FRAME == 3
GC_ROOT_NATIVE_STACK == 4
GC_ROOT_STICKY_CLASS == 5
GC_ROOT_THREAD_BLOCK == 6
GC_ROOT_MONITOR_USED == 7
GC_ROOT_THREAD_OBJ == 8
GC_CLASS_DUMP == 32
GC_INSTANCE_DUMP == 33
GC_OBJ_ARRAY_DUMP == 34
GC_PRIM_ARRAY_DUMP == 35

Type_ARRAY_OBJECT == 1
Type_NORMAL_OBJECT == 2
Type_BOOLEAN == 4
Type_CHAR == 5
Type_FLOAT == 6
Type_DOUBLE == 7
Type_BYTE == 8
Type_SHORT == 9
Type_INT == 10
Type_LONG == 11

SKIP_VALUES == 1

\* (ctx.flags & ReaderFlags.SKIP_VALUES) > 0
skipValues == (flags % 2) = 1

(***************************************************************************)
(* index.ts: valueSize, idReader, valueReader                              *)
(***************************************************************************)

\* the valueSizes table with CHAR as wide as an INT
valueSizesWideChar ==
    (Type_ARRAY_OBJECT :> -1) @@ (Type_NORMAL_OBJECT :> -1) @@ (Type_BOOLEAN :> 1) @@
    (Type_CHAR :> 4) @@ (Type_FLOAT :> 4) @@ (Type_DOUBLE :> 8) @@ (Type_BYTE :> 1) @@
    (Type_SHORT :> 2) @@ (Type_INT :> 4) @@ (Type_LONG :> 8)

\* the valueSizes table; -1 stands for "as wide as an identifier"
valueSizes ==
    (Type_ARRAY_OBJECT :> -1) @@ (Type_NORMAL_OBJECT :> -1) @@ (Type_BOOLEAN :> 1) @@
    (Type_CHAR :> 2) @@ (Type_FLOAT :> 4) @@ (Type_DOUBLE :> 8) @@ (Type_BYTE :> 1) @@
    (Type_SHORT :> 2) @@ (Type_INT :> 4) @@ (Type_LONG :> 8)

\* valueSize throws for a type code the table does not hold
valueSizeThrows(type) == type \notin DOMAIN valueSizes

\* valueSize(type, idSize)
valueSize(type, ids) ==
    IF valueSizes[type] = -1 THEN ids ELSE valueSizes[type]

\* idReader(buffer, size) throws unless size is 8 or 4
idReaderThrows(size) == size \notin {8, 4}

Throw(b, e) == IF b.err # "" THEN b ELSE [b EXCEPT !.err = e]

\* one awaited read: "id" is the reader idReader returns (getBigInt64 for 8,
\* BigInt(getInt32()) for 4), the others the buffer's typed reads
ReadField(b, f, ids) ==
    CASE f = "id" -> typedRead(b, ids, IF ids = 8 THEN "bigint" ELSE "int")
      [] f = "u1" -> typedRead(b, 1, "uint")
      [] f = "u2" -> typedRead(b, 2, "uint")
      [] f = "u4" -> typedRead(b, 4, "uint")
      [] f = "u8" -> typedRead(b, 8, "biguint")
      [] f = "i4" -> typedRead(b, 4, "int")
      [] f = "f4" -> typedRead(b, 4, "float")
      [] f = "f8" -> typedRead(b, 8, "float")

readId(b, ids) == ReadField(b, "id", ids)

\* the read valueReader(buffer, type, readId) picks for a type code
valueReaderOf ==
    (Type_BOOLEAN :> "u1") @@ (Type_BYTE :> "u1") @@ (Type_INT :> "u4") @@
    (Type_LONG :> "u8") @@ (Type_FLOAT :> "f4") @@ (Type_DOUBLE :> "f8") @@
    (Type_CHAR :> "u2") @@ (Type_SHORT :> "u2") @@ (Type_ARRAY_OBJECT :> "id") @@
    (Type_NORMAL_OBJECT :> "id")

\* valueReader(buffer, type, readId)(): throws for any other type code
valueReader(b, type, ids) ==
    IF type \in DOMAIN valueReaderOf THEN ReadField(b, valueReaderOf[type], ids)
    ELSE [b |-> Throw(b, "Unsupported value type"), v |-> <<>>]

\* the awaited reads of an argument list, left to right, stopping at a throw
RECURSIVE ReadFields(_, _, _, _)
ReadFields(b, fs, ids, acc) ==
    LET next(r) == ReadFields(r.b, Tail(fs), ids,
                              IF r.b.err = "" THEN Append(acc, r.v) ELSE acc)
    IN  IF fs = <<>> \/ b.err # "" THEN [b |-> b, v |-> acc]
        ELSE next(ReadField(b, Head(fs), ids))

\* a for loop of n turns, each awaiting the reads of one item
RECURSIVE ReadRepeated(_, _, _, _, _)
ReadRepeated(b, item, n, ids, acc) ==
    LET next(r) == ReadRepeated(r.b, item, n - 1, ids, r.v)
    IN  IF n <= 0 \/ b.err # "" THEN [b |-> b, v |-> acc]
        ELSE next(ReadFields(b, item, ids, acc))

\* a visitor callback invocation: its name, the cursor position at the call,
\* its scalar arguments, its payload (array or byte arguments) and whether
\* the payload values are undefined
Call(cb, at, args, payload, undef) ==
    [cb |-> cb, at |-> at, args |-> args, payload |-> payload, undef |-> undef]

\* a callback is made only when every awaited argument was read
CallIfOk(b, cb, args, payload, undef) ==
    IF b.err = "" THEN <<Call(cb, Cursor(b), args, payload, undef)>> ELSE <<>>

\* a visitor is kept as the set of its properties that hold a function; a
\* property that is present but holds undefined is in the set under this name
Undefined(name) == name \o ":undefined"

\* calling a property that holds undefined
NotAFunction == "TypeError: not a function"

(***************************************************************************)
(* index.ts: readSubRecord                                                 *)
(***************************************************************************)

\* constSubRecordHandlers; 0 stands for a field the table leaves undefined
constSubRecordHandlers ==
    (GC_ROOT_UNKNOWN :> [handler |-> "gcRootUnknown", size |-> 0, idCount |-> 0]) @@
    (GC_ROOT_THREAD_OBJ :> [handler |-> "gcRootThreadObj", size |-> 8, idCount |-> 0]) @@
    (GC_ROOT_JNI_GLOBAL :> [handler |-> "gcRootJniGlobal", size |-> 0, idCount |-> 2]) @@
    (GC_ROOT_JNI_LOCAL :> [handler |-> "gcRootJniLocal", size |-> 8, idCount |-> 0]) @@
    (GC_ROOT_JAVA_FRAME :> [handler |-> "gcRootJavaFrame", size |-> 8, idCount |-> 0]) @@
    (GC_ROOT_NATIVE_STACK :> [handler |-> "gcRootNativeStack", size |-> 4, idCount |-> 0]) @@
    (GC_ROOT_STICKY_CLASS :> [handler |-> "gcRootStickyClass", size |-> 0, idCount |-> 0]) @@
    (GC_ROOT_THREAD_BLOCK :> [handler |-> "gcRootThreadBlock", size |-> 4, idCount |-> 0]) @@
    (GC_ROOT_MONITOR_USED :> [handler |-> "gcRootMonitorUsed", size |-> 0, idCount |-> 0])

\* constRecSize with idCount left out of the product
constRecSizeOneId(tag, ids) == ids + constSubRecordHandlers[tag].size

\* the size the fast path skips: (idCount || 1) * idSize + (size || 0)
constRecSize(tag, ids) ==
    (IF constSubRecordHandlers[tag].idCount = 0 THEN 1
     ELSE constSubRecordHandlers[tag].idCount) * ids + constSubRecordHandlers[tag].size

\* the GC-root cases of the switch: callback, awaited arguments, and the
\* returned length as 1 + idMul * idSize + plus
rootCases ==
    (GC_ROOT_UNKNOWN :> [cb |-> "gcRootUnknown", fs |-> <<"id">>, idMul |-> 1, plus |-> 0]) @@
    (GC_ROOT_THREAD_OBJ :>
        [cb |-> "gcRootThreadObj", fs |-> <<"id", "u4", "u4">>, idMul |-> 1, plus |-> 8]) @@
    (GC_ROOT_JNI_GLOBAL :>
        [cb |-> "gcRootJniGlobal", fs |-> <<"id", "id">>, idMul |-> 2, plus |-> 0]) @@
    (GC_ROOT_JNI_LOCAL :>
        [cb |-> "gcRootJniLocal", fs |-> <<"id", "u4", "u4">>, idMul |-> 1, plus |-> 8]) @@
    (GC_ROOT_JAVA_FRAME :>
        [cb |-> "gcRootJavaFrame", fs |-> <<"id", "u4", "u4">>, idMul |-> 1, plus |-> 8]) @@
    (GC_ROOT_NATIVE_STACK :>
        [cb |-> "gcRootNativeStack", fs |-> <<"id", "u4">>, idMul |-> 1, plus |-> 4]) @@
    (GC_ROOT_STICKY_CLASS :>
        [cb |-> "gcRootStickyClass", fs |-> <<"id">>, idMul |-> 1, plus |-> 0]) @@
    (GC_ROOT_THREAD_BLOCK :>
        [cb |-> "gcRootThreadBlock", fs |-> <<"id", "u4">>, idMul |-> 1, plus |-> 4]) @@
    (GC_ROOT_MONITOR_USED :>
        [cb |-> "gcRootMonitorUsed", fs |-> <<"id">>, idMul |-> 1, plus |-> 0])

\* what readSubRecord yields: the buffer, the returned length, the callbacks made
Sub(b, len, ev) == [b |-> b, len |-> len, ev |-> ev]

\* rootRecord with the tag byte counted twice in the returned length
rootRecordTagTwice(b, tag, ids) ==
    LET call(c, r) == Sub(r.b, 2 + c.idMul * ids + c.plus,
                          CallIfOk(r.b, c.cb, r.v, <<>>, FALSE))
    IN  call(rootCases[tag], ReadFields(b, rootCases[tag].fs, ids, <<>>))

\* a GC-root case of the switch, after the tag byte
rootRecord(b, tag, ids) ==
    LET call(c, r) == Sub(r.b, 1 + c.idMul * ids + c.plus,
                          CallIfOk(r.b, c.cb, r.v, <<>>, FALSE))
    IN  call(rootCases[tag], ReadFields(b, rootCases[tag].fs, ids, <<>>))

\* the constant-pool loop (static = FALSE: u2 index, u1 type, value) and the
\* static-field loop (static = TRUE: id name, u1 type, value) of a class dump
\* parsed for gcClassDump; st carries the buffer, the length added so far,
\* the names/indexes and types (meta) and the values (vals)
RECURSIVE readItems(_, _, _, _)
readItems(st, n, ids, static) ==
    LET done(k, t, size, val) ==
            readItems([b |-> val.b,
                       len |-> st.len + (IF static THEN ids + 1 + size ELSE 3 + size),
                       meta |-> st.meta \o <<k.v, t.v>>,
                       vals |-> Append(st.vals, val.v)],
                      n - 1, ids, static)
        value(k, t, size) ==
            done(k, t, size, IF skipValues THEN [b |-> skip(t.b, size), v |-> <<>>]
                             ELSE valueReader(t.b, t.v[1], ids))
        type(k, t) ==
            IF t.b.err # "" THEN [st EXCEPT !.b = t.b]
            ELSE IF valueSizeThrows(t.v[1])
            THEN [st EXCEPT !.b = Throw(t.b, "Unsupported value type")]
            ELSE value(k, t, valueSize(t.v[1], ids))
        key(k) == type(k, getUint8(k.b))
    IN  IF n <= 0 \/ st.b.err # "" THEN st
        ELSE key(ReadField(st.b, IF static THEN "id" ELSE "u2", ids))

\* skipItems with the type byte left out of the length
RECURSIVE skipItemsNoTypeByte(_, _, _, _)
skipItemsNoTypeByte(st, n, ids, static) ==
    LET type(t) ==
            IF t.b.err # "" THEN [st EXCEPT !.b = t.b]
            ELSE IF valueSizeThrows(t.v[1])
            THEN [st EXCEPT !.b = Throw(t.b, "Unsupported value type")]
            ELSE skipItemsNoTypeByte([st EXCEPT
                              !.b = skip(t.b, valueSize(t.v[1], ids)),
                              !.len = st.len + (IF static THEN ids ELSE 2)
                                             + valueSize(t.v[1], ids)],
                           n - 1, ids, static)
    IN  IF n <= 0 \/ st.b.err # "" THEN st
        ELSE type(getUint8(skip(st.b, IF static THEN ids ELSE 2)))

\* the same two loops when gcClassDump is not registered: everything is
\* skipped but the type byte
RECURSIVE skipItems(_, _, _, _)
skipItems(st, n, ids, static) ==
    LET type(t) ==
            IF t.b.err # "" THEN [st EXCEPT !.b = t.b]
            ELSE IF valueSizeThrows(t.v[1])
            THEN [st EXCEPT !.b = Throw(t.b, "Unsupported value type")]
            ELSE skipItems([st EXCEPT
                              !.b = skip(t.b, valueSize(t.v[1], ids)),
                              !.len = st.len + (IF static THEN ids + 1 ELSE 3)
                                             + valueSize(t.v[1], ids)],
                           n - 1, ids, static)
    IN  IF n <= 0 \/ st.b.err # "" THEN st
        ELSE type(getUint8(skip(st.b, IF static THEN ids ELSE 2)))

\* the number a typed read yielded (0 after a throw)
NumOf(r) == IF r.b.err = "" THEN r.v[1] ELSE 0

\* case GC_CLASS_DUMP, after the tag byte
classDump(b, hd, ids) ==
    LET \* with gcClassDump registered
        call(h, instSize, constPoolSize, pool, numStaticFields, statics, numInstFields,
             insts) ==
            Sub(insts.b, 1 + statics.len + 2 + (1 + ids) * NumOf(numInstFields),
                CallIfOk(insts.b, "gcClassDump",
                         h.v \o <<instSize.v, constPoolSize.v>> \o pool.meta
                             \o <<numStaticFields.v>> \o statics.meta
                             \o <<numInstFields.v>> \o insts.v,
                         pool.vals \o statics.vals, skipValues))
        instFields(h, instSize, constPoolSize, pool, numStaticFields, statics,
                   numInstFields) ==
            call(h, instSize, constPoolSize, pool, numStaticFields, statics, numInstFields,
                 ReadRepeated(numInstFields.b, <<"id", "u1">>, NumOf(numInstFields), ids,
                              <<>>))
        afterStatics(h, instSize, constPoolSize, pool, numStaticFields, statics) ==
            instFields(h, instSize, constPoolSize, pool, numStaticFields, statics,
                       getUint16(statics.b))
        staticFields(h, instSize, constPoolSize, pool, numStaticFields) ==
            afterStatics(h, instSize, constPoolSize, pool, numStaticFields,
                         readItems([b |-> numStaticFields.b, len |-> pool.len + 2,
                                    meta |-> <<>>, vals |-> <<>>],
                                   NumOf(numStaticFields), ids, TRUE))
        afterPool(h, instSize, constPoolSize, pool) ==
            staticFields(h, instSize, constPoolSize, pool, getUint16(pool.b))
        constPool(h, instSize, constPoolSize) ==
            afterPool(h, instSize, constPoolSize,
                      readItems([b |-> constPoolSize.b, len |-> ids * 7 + 8 + 2,
                                 meta |-> <<>>, vals |-> <<>>],
                                NumOf(constPoolSize), ids, FALSE))
        afterInstSize(h, instSize) == constPool(h, instSize, getUint16(instSize.b))
        afterHead(h) == afterInstSize(h, getUint32(skip(h.b, ids * 2)))
        \* without: skipped
        sEnd(statics, numInstFields) ==
            Sub(skip(numInstFields.b, (1 + ids) * NumOf(numInstFields)),
                1 + statics.len + 2 + (1 + ids) * NumOf(numInstFields), <<>>)
        sAfterStatics(statics) == sEnd(statics, getUint16(statics.b))
        sStatics(pool, numStaticFields) ==
            sAfterStatics(skipItems([b |-> numStaticFields.b, len |-> pool.len + 2],
                                    NumOf(numStaticFields), ids, TRUE))
        sAfterPool(pool) == sStatics(pool, getUint16(pool.b))
        sPool(constPoolSize) ==
            sAfterPool(skipItems([b |-> constPoolSize.b, len |-> ids * 7 + 8 + 2],
                                 NumOf(constPoolSize), ids, FALSE))
    IN  IF "gcClassDump" \in hd
        THEN afterHead(ReadFields(b, <<"id", "u4", "id", "id", "id", "id">>, ids, <<>>))
        ELSE sPool(getUint16(skip(b, ids * 7 + 8)))

\* case GC_INSTANCE_DUMP, after the tag byte; the field bytes are handed over
\* as a slice of the view, kept here as (start, length) in the stream
instanceDump(b, hd, ids) ==
    LET call(h, numBytes, g) ==
            Sub(g, 1 + ids * 2 + 8 + numBytes,
                CallIfOk(g, "gcInstanceDump", SubSeq(h.v, 1, 3),
                         <<<<Cursor(g) - numBytes, numBytes>>>>, FALSE))
        fields(h, numBytes) == call(h, numBytes, get(h.b, numBytes))
        head(h) == fields(h, IF h.b.err = "" THEN h.v[4][1] ELSE 0)
        skipped(numBytes) ==
            Sub(skip(numBytes.b, NumOf(numBytes)), 1 + ids * 2 + 8 + NumOf(numBytes), <<>>)
    IN  IF "gcInstanceDump" \in hd
        THEN head(ReadFields(b, <<"id", "u4", "id", "u4">>, ids, <<>>))
        ELSE skipped(getUint32(skip(b, ids * 2 + 4)))

\* elems.fill(x): n times x, once the skip went through
Filled(b, n, x) == [b |-> b, v |-> IF b.err = "" THEN [i \in 1..n |-> x] ELSE <<>>]

\* objArrayDump whose skipping branch leaves the array class id out of the
\* returned length
objArrayDumpShortSkip(b, hd, ids) ==
    LET call(h, numElems, elems) ==
            Sub(elems.b, 1 + ids * (2 + numElems) + 8,
                CallIfOk(elems.b, "gcObjArrayDump", <<h.v[1], h.v[2], h.v[4]>>,
                         elems.v, FALSE))
        elements(h, numElems) ==
            call(h, numElems,
                 IF skipValues THEN Filled(skip(h.b, numElems * ids), numElems, <<0>>)
                 ELSE ReadRepeated(h.b, <<"id">>, numElems, ids, <<>>))
        head(h) == elements(h, IF h.b.err = "" THEN h.v[3][1] ELSE 0)
        skipped(numElems) ==
            Sub(skip(numElems.b, ids * (1 + NumOf(numElems))),
                1 + ids * (1 + NumOf(numElems)) + 8, <<>>)
    IN  IF "gcObjArrayDump" \in hd
        THEN head(ReadFields(b, <<"id", "u4", "u4", "id">>, ids, <<>>))
        ELSE skipped(getUint32(skip(b, ids + 4)))

\* case GC_OBJ_ARRAY_DUMP, after the tag byte
objArrayDump(b, hd, ids) ==
    LET call(h, numElems, elems) ==
            Sub(elems.b, 1 + ids * (2 + numElems) + 8,
                CallIfOk(elems.b, "gcObjArrayDump", <<h.v[1], h.v[2], h.v[4]>>,
                         elems.v, FALSE))
        elements(h, numElems) ==
            call(h, numElems,
                 IF skipValues THEN Filled(skip(h.b, numElems * ids), numElems, <<0>>)
                 ELSE ReadRepeated(h.b, <<"id">>, numElems, ids, <<>>))
        head(h) == elements(h, IF h.b.err = "" THEN h.v[3][1] ELSE 0)
        skipped(numElems) ==
            Sub(skip(numElems.b, ids * (1 + NumOf(numElems))),
                1 + ids * (2 + NumOf(numElems)) + 8, <<>>)
    IN  IF "gcObjArrayDump" \in hd
        THEN head(ReadFields(b, <<"id", "u4", "u4", "id">>, ids, <<>>))
        ELSE skipped(getUint32(skip(b, ids + 4)))

\* readValues putting each element in front of the ones read before
RECURSIVE readValuesReversed(_, _, _, _, _)
readValuesReversed(b, n, type, ids, acc) ==
    LET next(r) == readValuesReversed(r.b, n - 1, type, ids, <<r.v>> \o acc)
    IN  IF n <= 0 \/ b.err # "" THEN [b |-> b, v |-> acc]
        ELSE next(valueReader(b, type, ids))

\* the for loop over readValue() of a primitive array
RECURSIVE readValues(_, _, _, _, _)
readValues(b, n, type, ids, acc) ==
    LET next(r) == readValues(r.b, n - 1, type, ids, Append(acc, r.v))
    IN  IF n <= 0 \/ b.err # "" THEN [b |-> b, v |-> acc]
        ELSE next(valueReader(b, type, ids))

\* case GC_PRIM_ARRAY_DUMP, after the tag byte
primArrayDump(b, hd, ids) ==
    LET call(h, numElems, size, elems) ==
            Sub(elems.b, 1 + ids + 9 + numElems * size,
                CallIfOk(elems.b, "gcPrimArrayDump", <<h.v[1], h.v[2], h.v[4]>>,
                         elems.v, skipValues))
        elements(h, numElems, elemType, size) ==
            call(h, numElems, size,
                 IF skipValues THEN Filled(skip(h.b, numElems * size), numElems, <<>>)
                 ELSE readValues(h.b, numElems, elemType, ids, <<>>))
        head(h) ==
            IF h.b.err # "" THEN Sub(h.b, 0, <<>>)
            ELSE IF valueSizeThrows(h.v[4][1])
            THEN Sub(Throw(h.b, "Unsupported value type"), 0, <<>>)
            ELSE elements(h, h.v[3][1], h.v[4][1], valueSize(h.v[4][1], ids))
        skipped(numElems, elemType) ==
            IF elemType.b.err # "" THEN Sub(elemType.b, 0, <<>>)
            ELSE IF valueSizeThrows(elemType.v[1])
            THEN Sub(Throw(elemType.b, "Unsupported value type"), 0, <<>>)
            ELSE Sub(skip(elemType.b, NumOf(numElems) * valueSize(elemType.v[1], ids)),
                     1 + ids + 9 + NumOf(numElems) * valueSize(elemType.v[1], ids), <<>>)
        count(numElems) == skipped(numElems, getUint8(numElems.b))
    IN  IF "gcPrimArrayDump" \in hd
        THEN head(ReadFields(b, <<"id", "u4", "u4", "u1">>, ids, <<>>))
        ELSE count(getUint32(skip(b, ids + 4)))

\* readSubRecord(ctx, visitor); hd is the set of callbacks the heap-dump
\* visitor holds
readSubRecord(b, hd, ids) ==
    LET \* visitor.gcRootX(await ...) on a property holding undefined: the
        \* arguments are read, then the call throws
        undefinedRoot(r) == Sub(Throw(r.b, NotAFunction), 0, <<>>)
        dispatch(t, tag) ==
            IF t.b.err # "" THEN Sub(t.b, 0, <<>>)
            ELSE IF tag \in DOMAIN constSubRecordHandlers
                    /\ constSubRecordHandlers[tag].handler \notin hd
                    /\ Undefined(constSubRecordHandlers[tag].handler) \notin hd
            THEN Sub(skip(t.b, constRecSize(tag, ids)), 1 + constRecSize(tag, ids), <<>>)
            ELSE IF tag \in DOMAIN rootCases /\ rootCases[tag].cb \notin hd
            THEN undefinedRoot(ReadFields(t.b, rootCases[tag].fs, ids, <<>>))
            ELSE IF tag \in DOMAIN rootCases THEN rootRecord(t.b, tag, ids)
            ELSE IF tag = GC_CLASS_DUMP THEN classDump(t.b, hd, ids)
            ELSE IF tag = GC_INSTANCE_DUMP THEN instanceDump(t.b, hd, ids)
            ELSE IF tag = GC_OBJ_ARRAY_DUMP THEN objArrayDump(t.b, hd, ids)
            ELSE IF tag = GC_PRIM_ARRAY_DUMP THEN primArrayDump(t.b, hd, ids)
            ELSE Sub(Throw(t.b, "Unsupported heap dump sub-record tag"), 0, <<>>)
        tagOf(t) == dispatch(t, NumOf(t))
    IN  tagOf(getUint8(b))

(***************************************************************************)
(* index.ts: readRecord                                                    *)
(***************************************************************************)

recordHandlers ==
    (UTF8 :> "utf8") @@ (LOAD_CLASS :> "loadClass") @@ (UNLOAD_CLASS :> "unloadClass") @@
    (FRAME :> "frame") @@ (TRACE :> "trace") @@ (ALLOC_SITES :> "allocSites") @@
    (HEAP_SUMMARY :> "heapSummary") @@ (START_THREAD :> "startThread") @@
    (END_THREAD :> "endThread") @@ (HEAP_DUMP :> "heapDump") @@
    (CPU_SAMPLES :> "cpuSamples") @@ (CONTROL_SETTINGS :> "controlSettings") @@
    (HEAP_DUMP_SEGMENT :> "heapDump")

\* the cases of the switch that read a fixed argument list, then (count > 0)
\* as many item lists as the argument at position `count` says
bodyCases ==
    (LOAD_CLASS :> [fs |-> <<"u4", "id", "u4", "id">>, count |-> 0, item |-> <<>>]) @@
    (UNLOAD_CLASS :> [fs |-> <<"u4">>, count |-> 0, item |-> <<>>]) @@
    (FRAME :> [fs |-> <<"id", "id", "id", "id", "u4", "i4">>, count |-> 0, item |-> <<>>]) @@
    (TRACE :> [fs |-> <<"u4", "u4", "u4">>, count |-> 3, item |-> <<"id">>]) @@
    (ALLOC_SITES :> [fs |-> <<"u2", "u4", "u4", "u4", "u8", "u8", "u4">>, count |-> 7,
                     item |-> <<"u1", "u4", "u4", "u4", "u4", "u4", "u4">>]) @@
    (START_THREAD :> [fs |-> <<"u4", "id", "u4", "id", "id", "id">>, count |-> 0,
                      item |-> <<>>]) @@
    (END_THREAD :> [fs |-> <<"u4">>, count |-> 0, item |-> <<>>]) @@
    (HEAP_SUMMARY :> [fs |-> <<"u4", "u4", "u8", "u8">>, count |-> 0, item |-> <<>>]) @@
    (CPU_SAMPLES :> [fs |-> <<"u4", "u4">>, count |-> 2, item |-> <<"u4", "u4">>]) @@
    (CONTROL_SETTINGS :> [fs |-> <<"u4", "u2">>, count |-> 0, item |-> <<>>])

\* what the body of readRecord yields: the buffer, the callbacks made, and
\* whether the heap-dump sub-record loop is entered
Body(b, ev, sub) == [b |-> b, ev |-> ev, sub |-> sub]

\* the switch of readRecord for a tag whose callback the record visitor holds
readTagged(b, tag, length, ids, v) ==
    LET utf8(id, g) ==
            Body(g, CallIfOk(g, "utf8", <<id.v>>,
                             <<<<Cursor(g) - (length - ids), length - ids>>>>, FALSE), FALSE)
        utf8Id(id) == utf8(id, get(id.b, length - ids))
        heapDump(call) ==
            IF v.hdNull THEN Body(skip(b, length), call, FALSE) ELSE Body(b, call, TRUE)
        call(h, items) ==
            Body(items.b, CallIfOk(items.b, recordHandlers[tag], h.v, items.v, FALSE), FALSE)
        counted(c, h) ==
            call(h, ReadRepeated(h.b, c.item,
                                 IF c.count > 0 /\ h.b.err = "" THEN h.v[c.count][1] ELSE 0,
                                 ids, <<>>))
        fixed(c) == counted(c, ReadFields(b, c.fs, ids, <<>>))
    IN  IF tag = UTF8 THEN utf8Id(readId(b, ids))
        ELSE IF tag \in {HEAP_DUMP, HEAP_DUMP_SEGMENT}
        THEN heapDump(<<Call("heapDump", Cursor(b),
                             <<<<IF tag = HEAP_DUMP_SEGMENT THEN 1 ELSE 0>>>>, <<>>, FALSE)>>)
        ELSE fixed(bodyCases[tag])

\* the switch of readRecord for a tag whose property holds undefined:
\* rv.x?.(await ...) evaluates no argument, rv.heapDump?.() yields undefined
\* and the body is skipped, the cases that read into locals first (a loop
\* over items) read them and call nothing
readUndefined(b, tag, length, ids) ==
    LET counted(c, h) ==
            Body(ReadRepeated(h.b, c.item, IF h.b.err = "" THEN h.v[c.count][1] ELSE 0,
                              ids, <<>>).b, <<>>, FALSE)
    IN  IF tag \in {HEAP_DUMP, HEAP_DUMP_SEGMENT} THEN Body(skip(b, length), <<>>, FALSE)
        ELSE IF tag # UTF8 /\ bodyCases[tag].count > 0
        THEN counted(bodyCases[tag], ReadFields(b, bodyCases[tag].fs, ids, <<>>))
        ELSE Body(b, <<>>, FALSE)

\* readRecord after the frame was read and the gate consulted
readBody(b, tag, length, ids, v) ==
    LET raw(g) ==
            Body(g, CallIfOk(g, "raw", <<>>, <<<<Cursor(g) - length, length>>>>, FALSE), FALSE)
    IN  IF v.gate # "rv" THEN Body(skip(b, length), <<>>, FALSE)
        ELSE IF tag \in DOMAIN recordHandlers /\ recordHandlers[tag] \in v.rv
        THEN readTagged(b, tag, length, ids, v)
        ELSE IF tag \in DOMAIN recordHandlers /\ Undefined(recordHandlers[tag]) \in v.rv
        THEN readUndefined(b, tag, length, ids)
        ELSE IF "raw" \in v.rv THEN raw(get(b, length))
        ELSE Body(skip(b, length), <<>>, FALSE)

(***************************************************************************)
(* The inputs: streams, chunkings, visitors                                *)
(***************************************************************************)

U16(n) == <<(n \div 256) % 256, n % 256>>
U32(n) == <<(n \div 16777216) % 256, (n \div 65536) % 256, (n \div 256) % 256, n % 256>>
U64(n) == <<0, 0, 0, 0>> \o U32(n)
IdB(ids, n) == IF ids = 8 THEN U64(n) ELSE U32(n)

\* an identifier whose bytes are all 0xFF
IdFF(ids) == [i \in 1..ids |-> 255]

\* a record whose frame declares length L over the given body bytes
Rec(tag, ts, L, body, layoutOk) ==
    [bytes |-> <<tag>> \o U32(ts) \o U32(L) \o body, tag |-> tag, ts |-> ts, len |-> L,
     framed |-> (L = Len(body)), layoutOk |-> layoutOk]

\* a heap-dump record over the given sub-records
Heap(tag, ts, subs) == Rec(tag, ts, Len(Flatten(subs)), Flatten(subs), TRUE)

ClassDumpBytes(ids) ==
    <<GC_CLASS_DUMP>> \o IdB(ids, 2) \o U32(0) \o IdB(ids, 0) \o IdB(ids, 0) \o IdB(ids, 0)
        \o IdB(ids, 0) \o IdB(ids, 0) \o IdB(ids, 0) \o U32(8)
        \o U16(1) \o U16(1) \o <<Type_BYTE, 9>>
        \o U16(1) \o IdB(ids, 1) \o <<Type_INT>> \o U32(3)
        \o U16(1) \o IdB(ids, 1) \o <<Type_NORMAL_OBJECT>>

\* records whose body has the layout of their tag and the declared length
GoodRecords(ids) ==
    { Rec(UTF8, 1, ids + 2, IdB(ids, 1) \o <<97, 98>>, TRUE),
      Rec(LOAD_CLASS, 0, 8 + 2 * ids, U32(1) \o IdB(ids, 2) \o U32(0) \o IdB(ids, 1), TRUE),
      Rec(UNLOAD_CLASS, 2, 4, U32(1), TRUE),
      Rec(TRACE, 0, 12 + ids, U32(1) \o U32(1) \o U32(1) \o IdB(ids, 5), TRUE),
      Rec(CPU_SAMPLES, 0, 16, U32(3) \o U32(1) \o U32(3) \o U32(1), TRUE),
      Rec(CONTROL_SETTINGS, 3, 6, U32(1) \o U16(4), TRUE),
      Rec(HEAP_DUMP_END, 0, 0, <<>>, TRUE),
      Heap(HEAP_DUMP_SEGMENT, 0, << <<GC_ROOT_STICKY_CLASS>> \o IdB(ids, 3) >>),
      Heap(HEAP_DUMP, 1, << <<GC_ROOT_JNI_GLOBAL>> \o IdB(ids, 3) \o IdB(ids, 4),
                            <<GC_ROOT_THREAD_OBJ>> \o IdB(ids, 3) \o U32(1) \o U32(2) >>),
      Heap(HEAP_DUMP_SEGMENT, 0,
           << <<GC_INSTANCE_DUMP>> \o IdB(ids, 4) \o U32(0) \o IdB(ids, 2) \o U32(2) \o <<7, 7>>,
              <<GC_OBJ_ARRAY_DUMP>> \o IdB(ids, 5) \o U32(0) \o U32(1) \o IdB(ids, 6)
                  \o IdB(ids, 4) >>),
      Heap(HEAP_DUMP_SEGMENT, 0,
           << <<GC_PRIM_ARRAY_DUMP>> \o IdB(ids, 7) \o U32(0) \o U32(2) \o <<Type_SHORT>>
                  \o U16(5) \o U16(6) >>),
      Heap(HEAP_DUMP, 0, << ClassDumpBytes(ids) >>),
      Heap(HEAP_DUMP_SEGMENT, 2, << <<GC_ROOT_STICKY_CLASS>> \o IdFF(ids) >>) }

\* records that are off: a body longer than its tag's layout, a heap-dump
\* record declaring one byte more or one byte less than its sub-records
\* hold, a sub-record tag the format does not have, a primitive array whose
\* element type is no value type, a UTF8 record shorter than an identifier
OddRecords(ids) ==
    { Rec(UNLOAD_CLASS, 0, 5, U32(1) \o <<0>>, FALSE),
      Rec(UTF8, 0, 2, <<97, 98>>, FALSE),
      Rec(HEAP_DUMP_SEGMENT, 0, 2 + ids, <<GC_ROOT_STICKY_CLASS>> \o IdB(ids, 3), FALSE),
      Rec(HEAP_DUMP_SEGMENT, 0, ids, <<GC_ROOT_STICKY_CLASS>> \o IdB(ids, 3), FALSE),
      Rec(HEAP_DUMP, 0, 1, <<9>>, FALSE),
      Rec(HEAP_DUMP_SEGMENT, 0, 11 + ids,
          <<GC_PRIM_ARRAY_DUMP>> \o IdB(ids, 7) \o U32(0) \o U32(1) \o <<3, 0>>, FALSE) }

Records(ids) == GoodRecords(ids) \cup OddRecords(ids)

\* the records that follow the first record of a stream: a UTF8 record, a
\* HEAP_DUMP_END record, a segment holding one sticky class, and that segment
\* declaring one byte more than it holds
FollowRecords(ids) ==
    { Rec(UTF8, 1, ids + 2, IdB(ids, 1) \o <<97, 98>>, TRUE),
      Rec(HEAP_DUMP_END, 0, 0, <<>>, TRUE),
      Heap(HEAP_DUMP_SEGMENT, 0, << <<GC_ROOT_STICKY_CLASS>> \o IdB(ids, 3) >>),
      Rec(HEAP_DUMP_SEGMENT, 0, 2 + ids, <<GC_ROOT_STICKY_CLASS>> \o IdB(ids, 3), FALSE) }

\* the sequences of at most n records: any record first, then follow-up records
RECURSIVE RecordSeqs(_, _)
RecordSeqs(ids, n) ==
    IF n = 0 THEN { <<>> }
    ELSE LET shorter == RecordSeqs(ids, n - 1)
         IN  shorter \cup { Append(rs, r) : rs \in { x \in shorter : Len(x) = n - 1 },
                                           r \in IF n = 1 THEN Records(ids)
                                                 ELSE FollowRecords(ids) }

\* banner, terminator, u32 idSize, u64 timestamp
HeaderBytes(banner, ids, ts) == banner \o <<0>> \o U32(ids) \o U64(ts)

Banner == <<74>>
Timestamp == 5

RECURSIVE RecBytes(_)
RecBytes(rs) == IF rs = <<>> THEN <<>> ELSE Head(rs).bytes \o RecBytes(Tail(rs))

\* offset of the frame of record i
RECURSIVE FrameAt(_, _, _)
FrameAt(rs, i, hdrLen) ==
    IF i <= 1 THEN hdrLen ELSE FrameAt(rs, i - 1, hdrLen) + Len(rs[i - 1].bytes)

\* how many bytes of the full stream a truncation keeps
CutLen(cut, full, rs, hdrLen) ==
    CASE cut = "none" -> Len(full)
      [] cut = "header" -> hdrLen - 3
      [] cut = "frame" -> FrameAt(rs, Len(rs), hdrLen) + 3
      [] cut = "body" -> Len(full) - 1

Cuts(rs) ==
    {"none", "header"} \cup (IF rs # <<>> THEN {"frame"} ELSE {}) \cup
    (IF rs # <<>> /\ Len(rs[Len(rs)].bytes) > 9 THEN {"body"} ELSE {})

\* the source cuts the stream into chunks of c bytes (the last one shorter)
RECURSIVE Uniform(_, _)
Uniform(c, total) ==
    IF total <= 0 THEN <<>>
    ELSE IF total <= c THEN <<total>>
    ELSE <<c>> \o Uniform(c, total - c)

ChunkSizes == {5, MIN_READ}

\* one chunk, chunks of a fixed size, or a first chunk of a minimum refill
\* plus seven bytes and the rest in a second
Chunkings(total) ==
    { <<total>> } \cup { Uniform(c, total) : c \in ChunkSizes } \cup
    (IF total > MIN_READ + 7 THEN { <<MIN_READ + 7, total - MIN_READ - 7>> } ELSE {})

AllSub ==
    { constSubRecordHandlers[t].handler : t \in DOMAIN constSubRecordHandlers } \cup
    {"gcClassDump", "gcInstanceDump", "gcObjArrayDump", "gcPrimArrayDump"}

AllTags == { recordHandlers[t] : t \in DOMAIN recordHandlers }

\* the callbacks the visitor of slurp() holds: record() returns utf8,
\* loadClass and heapDump, heapDump() returns the four dump callbacks
slurpCallbacks ==
    [gate |-> "rv", rv |-> {"utf8", "loadClass", "heapDump"}, hdNull |-> FALSE,
     hd |-> {"gcClassDump", "gcInstanceDump", "gcObjArrayDump", "gcPrimArrayDump"}]

\* the visitors: no record gate; a gate returning null; a gate returning an
\* empty record visitor; one holding only raw; the test's visitor (every
\* callback); every record callback with heapDump returning null, an empty
\* heap-dump visitor, or one holding only the four dump callbacks; the
\* visitor of slurp()
Visitors ==
    { [gate |-> "absent", rv |-> {}, hdNull |-> TRUE, hd |-> {}],
      [gate |-> "null", rv |-> {}, hdNull |-> TRUE, hd |-> {}],
      [gate |-> "rv", rv |-> {}, hdNull |-> TRUE, hd |-> {}],
      [gate |-> "rv", rv |-> {"raw"}, hdNull |-> TRUE, hd |-> {}],
      [gate |-> "rv", rv |-> AllTags \cup {"raw"}, hdNull |-> FALSE, hd |-> AllSub],
      [gate |-> "rv", rv |-> AllTags, hdNull |-> TRUE, hd |-> {}],
      [gate |-> "rv", rv |-> AllTags, hdNull |-> FALSE, hd |-> {}],
      [gate |-> "rv", rv |-> AllTags, hdNull |-> FALSE,
       hd |-> {"gcClassDump", "gcInstanceDump", "gcObjArrayDump", "gcPrimArrayDump"}],
      slurpCallbacks }

IdSizes == {4, 8}

NoRec == [tag |-> -1, tsDelta |-> 0, length |-> 0]
\* a buffer operation as the buffer-level specification records it: its
\* name and length, the unread bytes of the view and the bytes the source
\* still held before it, the buffer as its ensure left it, the buffer after
BufferOp(op, n, unread, left, ens, out) ==
    [op |-> op, n |-> n, unread |-> unread, left |-> left, ens |-> ens, out |-> out]

NoOp == BufferOp("none", 0, 0, 0, wrap, wrap)

(***************************************************************************)
(* slurp.ts: the aggregating visitor                                       *)
(***************************************************************************)

\* slurp(): the visitor as constructed. idSize 0 stands for the field not
\* yet set, hasEntries tells whether this.entries was assigned; the six
\* Maps of the closure are kept in insertion order
slurp ==
    [idSize |-> 0, hasEntries |-> FALSE, entries |-> <<>>,
     strings |-> <<>>, classNames |-> <<>>, classes |-> <<>>,
     instances |-> <<>>, objArrays |-> <<>>, primArrays |-> <<>>]

\* objArrays.get(arrClsId): the index of the entry, 0 when there is none
RECURSIVE IndexOf(_, _, _)
IndexOf(m, id, i) ==
    IF i > Len(m) THEN 0 ELSE IF m[i].id = id THEN i ELSE IndexOf(m, id, i + 1)

\* the entry gcObjArrayDump creates for a class it has not seen
objArrayProto(arrClsId) ==
    [type |-> "OBJ_ARRAY", id |-> arrClsId, count |-> 0, elemCount |-> 0, maxSize |-> 0]

\* gcObjArrayDump(_arrObjId, _stackNum, arrClsId, elems) on the map m
gcObjArrayDump(m, arrClsId, elems) ==
    LET update(mm, i) ==
            [mm EXCEPT ![i].count = @ + 1, ![i].elemCount = @ + Len(elems)]
    IN  IF IndexOf(m, arrClsId, 1) = 0
        THEN update(Append(m, objArrayProto(arrClsId)), Len(m) + 1)
        ELSE update(m, IndexOf(m, arrClsId, 1))

\* Map.set(key, value): a new key goes last, a known key keeps its place
MapSet(m, e) ==
    IF IndexOf(m, e.id, 1) = 0 THEN Append(m, e) ELSE [m EXCEPT ![IndexOf(m, e.id, 1)] = e]

\* Map.get(key) of a Map of strings: <<>> stands for undefined
MapGet(m, id) == IF IndexOf(m, id, 1) = 0 THEN <<>> ELSE <<m[IndexOf(m, id, 1)].value>>

\* utf8(id, value)
utf8(a, id, value) == [a EXCEPT !.strings = MapSet(@, [id |-> id, value |-> value])]

\* loadClass(_num, objId, _stackNum, nameId); !value holds for undefined
\* and for the empty string
loadClass(a, objId, nameId) ==
    IF MapGet(a.strings, nameId) \in {<<>>, <<"">>} THEN a
    ELSE [a EXCEPT !.classNames =
                      MapSet(@, [id |-> objId, value |-> MapGet(a.strings, nameId)[1]])]

\* heapDump(_segment)
heapDump(a) == [a EXCEPT !.strings = <<>>]

\* gcClassDump(clsObjId, _stackNum, superObjId, ..., instSize, ...)
gcClassDump(a, clsObjId, superObjId, instSize) ==
    [a EXCEPT !.classes = MapSet(@, [id |-> clsObjId, instSize |-> instSize,
                                     superClsId |-> superObjId])]

\* gcInstanceDump that counts only the first dump of a class
gcInstanceDumpOnce(m, clsObjId) ==
    IF IndexOf(m, clsObjId, 1) = 0
    THEN Append(m, [type |-> "INSTANCE", id |-> clsObjId, count |-> 1])
    ELSE m

\* gcInstanceDump(_objId, _stackNum, clsObjId, _fieldValues) on the map m
gcInstanceDump(m, clsObjId) ==
    LET update(mm, i) == [mm EXCEPT ![i].count = @ + 1]
    IN  IF IndexOf(m, clsObjId, 1) = 0
        THEN update(Append(m, [type |-> "INSTANCE", id |-> clsObjId, count |-> 0]),
                    Len(m) + 1)
        ELSE update(m, IndexOf(m, clsObjId, 1))

\* the key of primArrays as the entry's id: BigInt(elemType)
BigInt(n) == <<0, 0, 0, n>>

\* gcPrimArrayDump(_arrObjId, _stackNum, elemType, elems) on the map m,
\* which is keyed by elemType
gcPrimArrayDump(m, elemType, elems) ==
    LET update(mm, i) ==
            [mm EXCEPT ![i].count = @ + 1, ![i].elemCount = @ + Len(elems),
                       ![i].maxSize = Max(@, Len(elems))]
    IN  IF IndexOf(m, BigInt(elemType), 1) = 0
        THEN update(Append(m, [type |-> "PRIM_ARRAY", id |-> BigInt(elemType), count |-> 0,
                               elemCount |-> 0, maxSize |-> 0]),
                    Len(m) + 1)
        ELSE update(m, IndexOf(m, BigInt(elemType), 1))

\* primDescs
primDescs ==
    (Type_BOOLEAN :> "Z") @@ (Type_CHAR :> "C") @@ (Type_FLOAT :> "F") @@
    (Type_DOUBLE :> "D") @@ (Type_BYTE :> "B") @@ (Type_SHORT :> "S") @@
    (Type_INT :> "I") @@ (Type_LONG :> "J")

\* `[${primDescs[id]}`
primName(type) == IF type \in DOMAIN primDescs THEN "[" \o primDescs[type] ELSE "[undefined"

\* x += x % idSize
Aligned(x, ids) == x + (x % ids)

\* the while loop of end() over the super classes: adds the instance sizes
\* of the classes on the chain until the id is 0n or not in the table
RECURSIVE superSizes(_, _, _)
superSizes(classes, superClsId, size) ==
    IF superClsId = BigInt(0) \/ IndexOf(classes, superClsId, 1) = 0 THEN size
    ELSE superSizes(classes, classes[IndexOf(classes, superClsId, 1)].superClsId,
                    size + classes[IndexOf(classes, superClsId, 1)].instSize)

\* instanceEntry with the super classes left out
instanceEntryOwnSize(a, inst) ==
    LET sized(size) ==
            [type |-> inst.type, id |-> inst.id, count |-> inst.count,
             name |-> MapGet(a.classNames, inst.id),
             totalSize |-> size * inst.count, largestSize |-> size]
    IN  IF IndexOf(a.classes, inst.id, 1) = 0
        THEN [type |-> inst.type, id |-> inst.id, count |-> inst.count,
              name |-> MapGet(a.classNames, inst.id), totalSize |-> -1, largestSize |-> -1]
        ELSE sized(Aligned(Aligned(a.idSize + 4, a.idSize)
                           + a.classes[IndexOf(a.classes, inst.id, 1)].instSize, a.idSize))

\* instanceEntry reporting size 0 for a class without a class dump
instanceEntryUnknownZero(a, inst) ==
    LET sized(size) ==
            [type |-> inst.type, id |-> inst.id, count |-> inst.count,
             name |-> MapGet(a.classNames, inst.id),
             totalSize |-> size * inst.count, largestSize |-> size]
        chain(cls, objectHeader) ==
            sized(Aligned(superSizes(a.classes, cls.superClsId, objectHeader + cls.instSize),
                          a.idSize))
    IN  IF IndexOf(a.classes, inst.id, 1) = 0
        THEN sized(0)
        ELSE chain(a.classes[IndexOf(a.classes, inst.id, 1)],
                   Aligned(a.idSize + 4, a.idSize))

\* end(): the entry pushed for one element of instances
instanceEntry(a, inst) ==
    LET sized(size) ==
            [type |-> inst.type, id |-> inst.id, count |-> inst.count,
             name |-> MapGet(a.classNames, inst.id),
             totalSize |-> size * inst.count, largestSize |-> size]
        chain(cls, objectHeader) ==
            sized(Aligned(superSizes(a.classes, cls.superClsId, objectHeader + cls.instSize),
                          a.idSize))
    IN  IF IndexOf(a.classes, inst.id, 1) = 0
        THEN [type |-> inst.type, id |-> inst.id, count |-> inst.count,
              name |-> MapGet(a.classNames, inst.id), totalSize |-> -1, largestSize |-> -1]
        ELSE chain(a.classes[IndexOf(a.classes, inst.id, 1)],
                   Aligned(a.idSize + 4, a.idSize))

\* end(): the entry pushed for one element of objArrays
objArrayEntry(a, inst) ==
    [type |-> inst.type, id |-> inst.id, count |-> inst.count,
     elemCount |-> inst.elemCount, maxSize |-> inst.maxSize,
     name |-> MapGet(a.classNames, inst.id),
     totalSize |-> (a.idSize + 8) * inst.count + a.idSize * inst.elemCount,
     largestSize |-> (a.idSize + 8) + a.idSize * inst.maxSize]

\* primArrayEntry without the 4 bytes of padding per array
primArrayEntryNoPadding(a, inst) ==
    LET sized(value) ==
            [type |-> inst.type, id |-> inst.id, count |-> inst.count,
             elemCount |-> inst.elemCount, maxSize |-> inst.maxSize,
             name |-> <<primName(inst.id[4])>>,
             totalSize |-> (a.idSize + 8) * inst.count + value * inst.elemCount,
             largestSize |-> Aligned((a.idSize + 8) + value * inst.maxSize, a.idSize)]
    IN  sized(valueSize(inst.id[4], a.idSize))

\* end(): the entry pushed for one element of primArrays
primArrayEntry(a, inst) ==
    LET sized(value) ==
            [type |-> inst.type, id |-> inst.id, count |-> inst.count,
             elemCount |-> inst.elemCount, maxSize |-> inst.maxSize,
             name |-> <<primName(inst.id[4])>>,
             totalSize |-> (a.idSize + 8) * inst.count + value * inst.elemCount
                           + inst.count * 4,
             largestSize |-> Aligned((a.idSize + 8) + value * inst.maxSize, a.idSize)]
    IN  sized(valueSize(inst.id[4], a.idSize))

\* end() that leaves the maps as they are
endKeepingMaps(a) ==
    [a EXCEPT
       !.hasEntries = TRUE,
       !.entries = [i \in 1..Len(a.instances) |-> instanceEntry(a, a.instances[i])]
                   \o [i \in 1..Len(a.objArrays) |-> objArrayEntry(a, a.objArrays[i])]
                   \o [i \in 1..Len(a.primArrays) |-> primArrayEntry(a, a.primArrays[i])]]

\* end(): the entries of instances, objArrays and primArrays, in this order
\* and in the order of each Map; every Map is cleared
end(a) ==
    [a EXCEPT
       !.hasEntries = TRUE,
       !.entries = [i \in 1..Len(a.instances) |-> instanceEntry(a, a.instances[i])]
                   \o [i \in 1..Len(a.objArrays) |-> objArrayEntry(a, a.objArrays[i])]
                   \o [i \in 1..Len(a.primArrays) |-> primArrayEntry(a, a.primArrays[i])],
       !.strings = <<>>, !.classNames = <<>>, !.classes = <<>>,
       !.instances = <<>>, !.objArrays = <<>>, !.primArrays = <<>>]

(***************************************************************************)
(* index.ts: read                                                          *)
(***************************************************************************)

\* a stream of at most MaxRecords records, maybe truncated, with how it was built
StreamOf(ids, rs, cut) ==
    LET hdr == HeaderBytes(Banner, ids, Timestamp)
        full == hdr \o RecBytes(rs)
    IN  [bytes |-> SubSeq(full, 1, CutLen(cut, full, rs, Len(hdr))),
         shape |-> [frames |-> [i \in 1..Len(rs) |->
                                  [tag |-> rs[i].tag, tsDelta |-> rs[i].ts,
                                   length |-> rs[i].len, at |-> FrameAt(rs, i, Len(hdr))]],
                    framed |-> cut = "none" /\ \A i \in 1..Len(rs) : rs[i].framed,
                    layoutOk |-> cut = "none" /\ \A i \in 1..Len(rs) : rs[i].layoutOk,
                    cut |-> cut, ids |-> ids]]

\* identifier sizes the header may also declare
OtherIdSizes == {1, 2, 3}

\* the streams: for the identifier sizes 4 and 8 every sequence of records,
\* for the others a header followed by one HEAP_DUMP_END record
Streams ==
    UNION { UNION { { StreamOf(ids, rs, cut) : cut \in Cuts(rs) } :
                    rs \in RecordSeqs(ids, MaxRecords) } : ids \in IdSizes }
    \cup { StreamOf(ids, << Rec(HEAP_DUMP_END, 0, 0, <<>>, TRUE) >>, "none") :
             ids \in OtherIdSizes }

\* no earlier call of read()
NoRun == [pc |-> "none", err |-> "", log |-> <<>>, trail |-> <<>>]

\* the arguments of read(): a source, a visitor, the flags
Arguments ==
    /\ \E s \in Streams :
        /\ stream = s.bytes
        /\ shape = s.shape
        /\ chunks \in Chunkings(Len(s.bytes))
    /\ flags \in {0, SKIP_VALUES}
    /\ vis \in Visitors

\* read() is entered: wrap(stream.getReader()), nothing decoded yet
Entered ==
    /\ buffer = wrap
    /\ pc = "start"
    /\ idSize = 0
    /\ rec = NoRec
    /\ remaining = 0
    /\ frameEnd = 0
    /\ subSum = 0
    /\ err = ""
    /\ eofAt = "none"
    /\ log = <<>>
    /\ cancels = 0
    /\ lastOp = NoOp
    /\ trail = <<>>

Init ==
    /\ Arguments
    /\ Entered
    /\ first = NoRun
    /\ pair = "single"
    /\ agg = slurp

inputs == <<stream, chunks, flags, vis, shape, lastOp, first, pair, agg>>

\* headerCalls with the callback left out
headerCallsNone(b, banner, ids, timestamp) == <<>>

\* await visitor.header?.(header, idSize, timestamp)
headerCalls(b, banner, ids, timestamp) ==
    <<Call("header", Cursor(b), <<ids, timestamp>>, <<banner>>, FALSE)>>

\* endCalls with the callback made a second time
endCallsTwice(b) ==
    <<Call("end", Cursor(b), <<>>, <<>>, FALSE), Call("end", Cursor(b), <<>>, <<>>, FALSE)>>

\* await visitor.end?.()
endCalls(b) == <<Call("end", Cursor(b), <<>>, <<>>, FALSE)>>

\* the callbacks of the given name invoked so far
Calls(cb) == SelectSeq(log, LAMBDA c : c.cb = cb)

\* read() has resolved / has terminated
Resolved == pc = "done"
Terminated == pc \in {"done", "rejected"}

\* the exception a visitor callback throws
VisitorError == "Visitor error"

\* whether the callback just invoked throws instead of returning: either,
\* when one was invoked
Thrown(ev) == IF ev = <<>> THEN {FALSE} ELSE BOOLEAN

\* the buffer as it stood when the last callback of ev was invoked: r, the
\* buffer the step ended with, when the callback came last in the step, b0,
\* the buffer the step began with, when the callback preceded the step's
\* buffer operation (heapDump returning null, then skip)
AtCall(b0, r, ev) ==
    IF r.err = "" /\ Cursor(r) = ev[Len(ev)].at THEN r ELSE b0

\* read() rejects with e, the buffer left as b
Raise(b, e) ==
    /\ buffer' = b
    /\ pc' = "rejected"
    /\ err' = e
    /\ UNCHANGED eofAt

\* read(), up to the try block: the header, the reader context, visitor.header
ReadHeader ==
    /\ pc = "start"
    /\ LET done(header, ids, timestamp) ==
               /\ buffer' = timestamp.b
               /\ IF timestamp.b.err # ""
                  THEN /\ pc' = "rejected"
                       /\ err' = timestamp.b.err
                       /\ eofAt' = "header"
                       /\ UNCHANGED <<idSize, log>>
                  ELSE IF idReaderThrows(ids.v[1])
                  THEN /\ pc' = "rejected"
                       /\ err' = "Unsupported identifier size"
                       /\ UNCHANGED <<idSize, log, eofAt>>
                  ELSE /\ idSize' = ids.v[1]
                       /\ log' = log \o headerCalls(timestamp.b, header.v, ids.v,
                                                     timestamp.v)
                       /\ \E t \in Thrown(headerCalls(timestamp.b, header.v, ids.v,
                                                      timestamp.v)) :
                            IF t THEN /\ pc' = "rejected"
                                      /\ err' = VisitorError
                                      /\ UNCHANGED eofAt
                            ELSE /\ pc' = "frame"
                                 /\ UNCHANGED <<err, eofAt>>
           size(header, ids) == done(header, ids, getBigUint64(ids.b))
           banner(header) == size(header, getUint32(header.b))
       IN  banner(take(buffer, 0, <<>>))
    /\ UNCHANGED <<inputs, rec, remaining, frameEnd, subSum, cancels, trail>>

\* const rv = await visitor.record?.(tag, tsDelta, length)
recordCalls(b, frame) ==
    IF vis.gate = "absent" THEN <<>> ELSE <<Call("record", Cursor(b), frame, <<>>, FALSE)>>

\* readRecord: the frame and the record gate
ReadFrame ==
    /\ pc = "frame"
    /\ LET frame(f) ==
               /\ buffer' = f.b
               /\ IF f.b.err # ""
                  THEN /\ pc' = "end"
                       /\ eofAt' = IF Len(f.v) = 0 THEN "frameTag" ELSE "frame"
                       /\ UNCHANGED <<rec, frameEnd, log, err, trail>>
                  ELSE /\ rec' = [tag |-> f.v[1][1], tsDelta |-> f.v[2][1],
                                  length |-> f.v[3][1]]
                       /\ frameEnd' = Cursor(f.b)
                       /\ trail' = Append(trail, Cursor(buffer))
                       /\ log' = log \o recordCalls(f.b, f.v)
                       /\ \E t \in Thrown(recordCalls(f.b, f.v)) :
                            IF t THEN /\ pc' = "rejected"
                                      /\ err' = VisitorError
                                      /\ UNCHANGED eofAt
                            ELSE /\ pc' = "body"
                                 /\ UNCHANGED <<err, eofAt>>
       IN  frame(ReadFields(buffer, <<"u1", "u4", "u4">>, idSize, <<>>))
    /\ UNCHANGED <<inputs, idSize, remaining, subSum, cancels>>

\* After with the catch clause letting every error pass
AfterSwallowing(b, onward, where) ==
    /\ buffer' = b
    /\ IF b.err = "" THEN /\ pc' = onward
                          /\ UNCHANGED <<err, eofAt>>
       ELSE /\ pc' = "end"
            /\ eofAt' = where
            /\ UNCHANGED err

\* how read() goes on after a step of the try block that left the buffer in
\* state b: on, out through the catch clause (EOF), or rejected
After(b, onward, where) ==
    /\ buffer' = b
    /\ IF b.err = "" THEN /\ pc' = onward
                          /\ UNCHANGED <<err, eofAt>>
       ELSE IF b.err = "EOF" THEN /\ pc' = "end"
                                  /\ eofAt' = where
                                  /\ UNCHANGED err
       ELSE /\ pc' = "rejected"
            /\ err' = b.err
            /\ UNCHANGED eofAt

\* readRecord: the body
ReadBody ==
    /\ pc = "body"
    /\ LET body(r) ==
               /\ log' = log \o r.ev
               /\ \E t \in Thrown(r.ev) :
                    IF t THEN /\ Raise(AtCall(buffer, r.b, r.ev), VisitorError)
                              /\ UNCHANGED <<remaining, subSum>>
                    ELSE /\ After(r.b, IF r.sub THEN "sub" ELSE "frame", "body")
                         /\ remaining' = IF r.sub THEN rec.length ELSE remaining
                         /\ subSum' = IF r.sub THEN 0 ELSE subSum
       IN  body(readBody(buffer, rec.tag, rec.length, idSize, vis))
    /\ UNCHANGED <<inputs, idSize, rec, frameEnd, cancels, trail>>

\* one turn of the while (remaining > 0) loop
ReadSubRecord ==
    /\ pc = "sub"
    /\ remaining > 0
    /\ LET sub(r) ==
               /\ log' = log \o r.ev
               /\ \E t \in Thrown(r.ev) :
                    IF t THEN /\ Raise(AtCall(buffer, r.b, r.ev), VisitorError)
                              /\ UNCHANGED <<remaining, subSum>>
                    ELSE /\ After(r.b, "sub", "sub")
                         /\ remaining' = IF r.b.err = "" THEN remaining - r.len
                                          ELSE remaining
                         /\ subSum' = IF r.b.err = "" THEN subSum + r.len ELSE subSum
       IN  sub(readSubRecord(buffer, vis.hd, idSize))
    /\ UNCHANGED <<inputs, idSize, rec, frameEnd, cancels, trail>>

\* the loop is left: remaining !== 0 throws
EndSubRecords ==
    /\ pc = "sub"
    /\ ~(remaining > 0)
    /\ IF remaining # 0
       THEN /\ pc' = "rejected"
            /\ err' = "Buffer underflow"
       ELSE /\ pc' = "frame"
            /\ UNCHANGED err
    /\ UNCHANGED <<inputs, buffer, idSize, rec, remaining, frameEnd, subSum, eofAt, log,
                   cancels, trail>>

\* after the catch clause let EOF pass: visitor.end, then reader.cancel when
\* end returned
End ==
    /\ pc = "end"
    /\ log' = log \o endCalls(buffer)
    /\ \E t \in Thrown(endCalls(buffer)) :
        IF t THEN /\ pc' = "rejected"
                  /\ err' = VisitorError
                  /\ UNCHANGED cancels
        ELSE /\ pc' = "done"
             /\ cancels' = cancels + 1
             /\ UNCHANGED err
    /\ UNCHANGED <<inputs, buffer, idSize, rec, remaining, frameEnd, subSum, eofAt, trail>>

Next == ReadHeader \/ ReadFrame \/ ReadBody \/ ReadSubRecord \/ EndSubRecords \/ End

Spec == Init /\ [][Next]_vars

(***************************************************************************)
(* read() called twice on the same bytes, one argument changed             *)
(***************************************************************************)

\* a visitor without callbacks, and one whose record gate returns every
\* per-tag callback and whose heapDump returns every sub-record callback
NoCallbacks == [gate |-> "absent", rv |-> {}, hdNull |-> TRUE, hd |-> {}]
AllCallbacks == [gate |-> "rv", rv |-> AllTags, hdNull |-> FALSE, hd |-> AllSub]

\* what the second call changes: the visitor, the chunking, the flags, or
\* the absent properties of the visitor into properties holding undefined
Pairs == {"visitor", "chunks", "flags", "undefined"}

\* visitors with absent properties: an empty record visitor, one holding
\* only raw, and one holding every per-tag callback whose heapDump returns
\* an empty object
Sparse ==
    { [gate |-> "rv", rv |-> {}, hdNull |-> TRUE, hd |-> {}],
      [gate |-> "rv", rv |-> {"raw"}, hdNull |-> TRUE, hd |-> {}],
      [gate |-> "rv", rv |-> AllTags, hdNull |-> FALSE, hd |-> {}] }

\* the visitor v with every absent callback property present, holding undefined
WithUndefined(v) ==
    [v EXCEPT !.rv = @ \cup { Undefined(n) : n \in (AllTags \cup {"raw"}) \ @ },
              !.hd = IF v.hdNull THEN @ ELSE @ \cup { Undefined(n) : n \in AllSub \ @ }]

\* the first call: no callbacks, the source in one chunk, or no flag
InitTwice ==
    /\ Arguments
    /\ Entered
    /\ first = NoRun
    /\ agg = slurp
    /\ pair \in Pairs
    /\ pair = "visitor" => vis = NoCallbacks
    /\ pair = "chunks" => chunks = <<Len(stream)>>
    /\ pair = "flags" => flags = 0
    /\ pair = "undefined" => vis \in Sparse

\* read() is called again on a new source over the same bytes, once the
\* first call has settled without a visitor exception
Restart ==
    /\ Terminated
    /\ first = NoRun
    /\ pair \in Pairs
    /\ err # VisitorError
    /\ first' = [pc |-> pc, err |-> err, log |-> log, trail |-> trail]
    /\ vis' = IF pair = "visitor" THEN AllCallbacks
              ELSE IF pair = "undefined" THEN WithUndefined(vis) ELSE vis
    /\ flags' = IF pair = "flags" THEN SKIP_VALUES ELSE flags
    /\ IF pair = "chunks" THEN chunks' \in Chunkings(Len(stream)) \ {chunks}
       ELSE UNCHANGED chunks
    /\ buffer' = wrap
    /\ pc' = "start"
    /\ idSize' = 0
    /\ rec' = NoRec
    /\ remaining' = 0
    /\ frameEnd' = 0
    /\ subSum' = 0
    /\ err' = ""
    /\ eofAt' = "none"
    /\ log' = <<>>
    /\ cancels' = 0
    /\ trail' = <<>>
    /\ UNCHANGED <<stream, shape, lastOp, pair, agg>>

NextTwice == Next \/ Restart

SpecTwice == InitTwice /\ [][NextTwice]_vars

(***************************************************************************)
(* The buffer on its own: a caller applying its operations to a source     *)
(***************************************************************************)

\* the chunk lengths the source of the buffer-level specification delivers
BufChunkSizes == {3, 9, MIN_READ + 4}

\* the sources: at most MaxBufChunks chunks
BufChunkings == UNION { [1..k -> BufChunkSizes] : k \in 1..MaxBufChunks }

\* the bytes of a source of the given length; every fifth byte is zero
BufStream(total) == [i \in 1..total |-> (i * 3) % 5]

\* the lengths the caller asks for
BufLengths == {1, 3, 8, MIN_READ + 1}

\* the typed reads the caller makes: width and kind
BufReads == { <<1, "uint">>, <<2, "uint">>, <<4, "int">>, <<8, "bigint">>,
              <<4, "float">>, <<8, "biguint">> }

InitBuf ==
    /\ chunks \in BufChunkings
    /\ stream = BufStream(SumSeq(chunks))
    /\ shape = [frames |-> <<>>, framed |-> FALSE, layoutOk |-> FALSE, cut |-> "none",
                ids |-> 0]
    /\ flags = 0
    /\ vis = [gate |-> "absent", rv |-> {}, hdNull |-> TRUE, hd |-> {}]
    /\ buffer = wrap
    /\ pc = "buffer"
    /\ idSize = 0
    /\ rec = NoRec
    /\ remaining = 0
    /\ frameEnd = 0
    /\ subSum = 0
    /\ err = ""
    /\ eofAt = "none"
    /\ log = <<>>
    /\ cancels = 0
    /\ lastOp = NoOp
    /\ trail = <<>>
    /\ first = NoRun
    /\ pair = "single"
    /\ agg = slurp

\* one operation of the buffer, applied while no earlier one has thrown
Apply(op, n, ens, out) ==
    /\ buffer.err = ""
    /\ lastOp' = BufferOp(op, n, Unread(buffer), SourceLeft(buffer), ens, out)
    /\ buffer' = out
    /\ UNCHANGED <<stream, chunks, flags, vis, shape, pc, idSize, rec, remaining, frameEnd,
                   subSum, err, eofAt, log, cancels, trail, first, pair, agg>>

\* ensure(n) on its own
BufEnsure ==
    /\ pc = "buffer"
    /\ \E n \in BufLengths : Apply("ensure", n, ensure(buffer, n), ensure(buffer, n))

BufGet ==
    /\ pc = "buffer"
    /\ \E n \in BufLengths : Apply("get", n, ensure(buffer, n), get(buffer, n))

BufSkip ==
    /\ pc = "buffer"
    /\ \E n \in BufLengths \cup {0} : Apply("skip", n, buffer, skip(buffer, n))

\* getUint8 .. getBigUint64
BufRead ==
    /\ pc = "buffer"
    /\ \E r \in BufReads :
        Apply("read", r[1], ensure(buffer, r[1]), typedRead(buffer, r[1], r[2]).b)

BufTake ==
    /\ pc = "buffer"
    /\ Apply("take", 1, ensure(buffer, 1), take(buffer, 0, <<>>).b)

NextBuf == BufEnsure \/ BufGet \/ BufSkip \/ BufRead \/ BufTake

SpecBuf == InitBuf /\ [][NextBuf]_vars

(***************************************************************************)
(* The slurp() visitor on its own: a decoder calling header, then the      *)
(* record and sub-record callbacks, then end                               *)
(***************************************************************************)

\* at most this many gcObjArrayDump calls, and gcPrimArrayDump calls
MaxDumps == 3

\* at most this many elements in an object array
MaxElems == 3

\* at most this many gcClassDump and gcInstanceDump calls together
MaxSubRecords == 4

\* the array class ids and the element arrays the decoder hands over
SlurpClassIds == { <<0, 0, 0, 6>>, <<0, 0, 0, 9>> }
SlurpElems == UNION { [1..n -> { <<0, 0, 0, 4>> }] : n \in 0..MaxElems }

\* the classes of the dump: A and B are dumped, C never is
ClsA == <<0, 0, 0, 6>>
ClsB == <<0, 0, 0, 9>>
ClsC == <<0, 0, 0, 12>>

\* the class dumps the decoder hands over: class id, super class id,
\* instance size
SlurpClassDumps ==
    { <<ClsA, BigInt(0), 8>>, <<ClsA, BigInt(0), 5>>, <<ClsB, ClsA, 16>>, <<ClsB, ClsC, 16>> }

\* the primitive arrays the decoder hands over: every value type with three
\* elements, INT also with none or one
SlurpPrimArrays ==
    { <<t, 3>> : t \in DOMAIN valueSizes } \cup { <<Type_INT, n>> : n \in {0, 1} }

\* the strings and the names of loaded classes
SlurpStringIds == { BigInt(1), BigInt(2) }
SlurpStrings == { "Foo", "" }

\* the strings of a dump of names: identifier and value
NamedStrings == { <<BigInt(1), "Foo">>, <<BigInt(1), "">>, <<BigInt(2), "Bar">> }

\* a dump of names: strings, loaded classes, one instance and one object array
NameKinds == {"utf8", "loadClass", "heapDump", "gcInstanceDump", "gcObjArrayDump"}

\* what a dump holds: classes and instances, object arrays, primitive
\* arrays, or a little of everything
SlurpKinds ==
    { {"heapDump", "gcClassDump", "gcInstanceDump"}, {"heapDump", "gcObjArrayDump"},
      {"heapDump", "gcPrimArrayDump"}, NameKinds,
      {"utf8", "loadClass", "heapDump", "gcClassDump", "gcInstanceDump", "gcObjArrayDump",
       "gcPrimArrayDump"} }

\* a dump holding a little of everything
Mixed == "utf8" \in shape.kinds

\* a dump of names
Named == shape.kinds = NameKinds

InitSlurp ==
    /\ stream = <<>>
    /\ chunks = <<>>
    /\ \E kinds \in SlurpKinds :
         shape = [frames |-> <<>>, framed |-> FALSE, layoutOk |-> FALSE, cut |-> "none",
                  ids |-> 0, kinds |-> kinds]
    /\ flags = 0
    /\ vis = [gate |-> "rv", rv |-> {"utf8", "loadClass", "heapDump"}, hdNull |-> FALSE,
              hd |-> {"gcClassDump", "gcInstanceDump", "gcObjArrayDump", "gcPrimArrayDump"}]
    /\ buffer = wrap
    /\ pc = "slurp"
    /\ idSize = 0
    /\ rec = NoRec
    /\ remaining = 0
    /\ frameEnd = 0
    /\ subSum = 0
    /\ err = ""
    /\ eofAt = "none"
    /\ log = <<>>
    /\ cancels = 0
    /\ lastOp = NoOp
    /\ trail = <<>>
    /\ first = NoRun
    /\ pair = "single"
    /\ agg = slurp

slurpKept == <<stream, chunks, flags, vis, shape, buffer, idSize, rec, remaining, frameEnd,
               subSum, err, eofAt, cancels, lastOp, trail, first, pair>>

\* the class and instance dump callbacks made so far
SubRecordCalls == SelectSeq(log, LAMBDA c : c.cb \in {"gcClassDump", "gcInstanceDump"})

\* how often utf8 and loadClass are called
MaxNames == 2

\* how often a callback is made in a dump holding everything or names
Repeats(kind) == IF Named /\ kind \in {"utf8", "loadClass"} THEN MaxNames ELSE 1

\* a callback of the given kind may be made: the dump holds that kind and
\* is not full; utf8, loadClass and heapDump are called once, and so is each
\* kind of a dump holding everything (utf8 and loadClass MaxNames times in a
\* dump of names, whose object array follows its instance); the sub-record callbacks are made on
\* the visitor that heapDump returned
MayCall(kind) ==
    /\ pc = "slurping"
    /\ kind \in shape.kinds
    /\ (Mixed \/ kind = "heapDump") => Len(Calls(kind)) < Repeats(kind)
    /\ kind \notin {"utf8", "loadClass", "heapDump"} => Calls("heapDump") # <<>>
    /\ kind \in {"gcClassDump", "gcInstanceDump"} => Len(SubRecordCalls) < MaxSubRecords
    /\ (Named /\ kind = "gcObjArrayDump") => Calls("gcInstanceDump") # <<>>
    /\ kind \in {"gcObjArrayDump", "gcPrimArrayDump"} => Len(Calls(kind)) < MaxDumps

\* header(_header, idSize, timestamp)
SlurpHeader ==
    /\ pc = "slurp"
    /\ \E ids \in IdSizes :
        /\ agg' = [agg EXCEPT !.idSize = ids]
        /\ log' = Append(log, Call("header", 0, << <<ids>>, <<0, 0, 0, Timestamp>> >>,
                                   <<Banner>>, FALSE))
    /\ pc' = "slurping"
    /\ UNCHANGED slurpKept

\* utf8(id, value)
SlurpUtf8 ==
    /\ MayCall("utf8")
    /\ \E id \in SlurpStringIds, value \in SlurpStrings \cup {"Bar"} :
        /\ IF Named THEN <<id, value>> \in NamedStrings
           ELSE id = BigInt(1) /\ value \in SlurpStrings
        /\ agg' = utf8(agg, id, value)
        /\ log' = Append(log, Call("utf8", 0, <<id>>, <<value>>, FALSE))
    /\ UNCHANGED <<pc, slurpKept>>

\* loadClass(_num, objId, _stackNum, nameId)
SlurpLoadClass ==
    /\ MayCall("loadClass")
    /\ \E objId \in {ClsA}, nameId \in SlurpStringIds :
        /\ agg' = loadClass(agg, objId, nameId)
        /\ log' = Append(log, Call("loadClass", 0, << <<1>>, objId, <<0>>, nameId >>, <<>>,
                                   FALSE))
    /\ UNCHANGED <<pc, slurpKept>>

\* heapDump(_segment)
SlurpHeapDump ==
    /\ MayCall("heapDump")
    /\ agg' = heapDump(agg)
    /\ log' = Append(log, Call("heapDump", 0, << <<1>> >>, <<>>, FALSE))
    /\ UNCHANGED <<pc, slurpKept>>

\* gcClassDump(clsObjId, _stackNum, superObjId, ..., instSize, ...)
SlurpClassDump ==
    /\ MayCall("gcClassDump")
    /\ \E c \in SlurpClassDumps :
        /\ Mixed => c = <<ClsA, BigInt(0), 8>>
        /\ agg' = gcClassDump(agg, c[1], c[2], c[3])
        /\ log' = Append(log, Call("gcClassDump", 0, <<c[1], <<0>>, c[2], <<c[3]>> >>, <<>>,
                                   FALSE))
    /\ UNCHANGED <<pc, slurpKept>>

\* gcInstanceDump(_objId, _stackNum, clsObjId, _fieldValues)
SlurpInstanceDump ==
    /\ MayCall("gcInstanceDump")
    /\ \E clsObjId \in {ClsA, ClsB} :
        /\ Mixed => clsObjId = ClsA
        /\ agg' = [agg EXCEPT !.instances = gcInstanceDump(@, clsObjId)]
        /\ log' = Append(log, Call("gcInstanceDump", 0, << <<0, 0, 0, 1>>, <<0>>, clsObjId >>,
                                   <<>>, FALSE))
    /\ UNCHANGED <<pc, slurpKept>>

\* gcObjArrayDump(_arrObjId, _stackNum, arrClsId, elems)
SlurpObjArrayDump ==
    /\ MayCall("gcObjArrayDump")
    /\ \E arrClsId \in SlurpClassIds, elems \in SlurpElems :
        /\ Mixed => (arrClsId = ClsA /\ Len(elems) = 1)
        /\ agg' = [agg EXCEPT !.objArrays = gcObjArrayDump(@, arrClsId, elems)]
        /\ log' = Append(log, Call("gcObjArrayDump", 0, << <<0, 0, 0, 1>>, <<0>>, arrClsId >>,
                                   elems, FALSE))
    /\ UNCHANGED <<pc, slurpKept>>

\* gcPrimArrayDump(_arrObjId, _stackNum, elemType, elems)
SlurpPrimArrayDump ==
    /\ MayCall("gcPrimArrayDump")
    /\ \E p \in SlurpPrimArrays :
        /\ Mixed => p = <<Type_INT, 3>>
        /\ agg' = [agg EXCEPT !.primArrays = gcPrimArrayDump(@, p[1], [i \in 1..p[2] |-> <<>>])]
        /\ log' = Append(log, Call("gcPrimArrayDump", 0, << <<0, 0, 0, 1>>, <<0>>, <<p[1]>> >>,
                                   [i \in 1..p[2] |-> <<>>], TRUE))
    /\ UNCHANGED <<pc, slurpKept>>

\* end()
SlurpEnd ==
    /\ pc = "slurping"
    /\ agg' = end(agg)
    /\ log' = Append(log, Call("end", 0, <<>>, <<>>, FALSE))
    /\ pc' = "slurped"
    /\ UNCHANGED slurpKept

NextSlurp ==
    \/ SlurpHeader
    \/ SlurpUtf8
    \/ SlurpLoadClass
    \/ SlurpHeapDump
    \/ SlurpClassDump
    \/ SlurpInstanceDump
    \/ SlurpObjArrayDump
    \/ SlurpPrimArrayDump
    \/ SlurpEnd

SpecSlurp == InitSlurp /\ [][NextSlurp]_vars

(***************************************************************************)
(* Properties                                                              *)
(***************************************************************************)


\* the stream is a header followed by complete records whose bodies have
\* the declared length and the layout of their tag
WellFormed == shape.cut = "none" /\ shape.framed /\ shape.layoutOk

\* C1: ensure(n), alone or behind get, a typed read or take, succeeds and
\* leaves at least n bytes at the cursor whenever the unread bytes of the
\* view plus the bytes the source still holds are at least n (so it throws
\* EOF only when fewer than n bytes exist).
C1_EnsureSucceedsWhenBytesRemain ==
    (lastOp.op \in {"ensure", "get", "read", "take"} /\ lastOp.unread + lastOp.left >= lastOp.n)
        => (lastOp.ens.err = "" /\ Unread(lastOp.ens) >= lastOp.n)

\* C2: when read() resolves on a well-formed stream, the cursor has advanced
\* through the whole stream.
C2_WholeStreamConsumed ==
    (Resolved /\ WellFormed) => Cursor(buffer) = Len(stream)

\* C3: on a stream that is exactly a valid header with idSize 8 and no
\* record, read() resolves without error after invoking header once, with
\* the banner, 8 and the timestamp, and record never.
C3_HeaderOnlyResolves ==
    (Terminated /\ shape.cut = "none" /\ shape.frames = <<>> /\ shape.ids = 8)
        => /\ Resolved
           /\ err = ""
           /\ Len(Calls("header")) = 1
           /\ Calls("header")[1].payload = <<Banner>>
           /\ Calls("header")[1].args = << <<8>>, <<0, 0, 0, Timestamp>> >>
           /\ Calls("record") = <<>>

\* C4: on a stream that is not cut short, once a record has been decoded
\* and the next frame is about to be read, the cursor stands exactly the
\* declared length after the end of the record's frame, whatever the
\* visitor registers.
C4_BodyAdvancesDeclaredLength ==
    (pc = "frame" /\ rec # NoRec /\ shape.cut = "none")
        => Cursor(buffer) = frameEnd + rec.length

\* C5: a HEAP_DUMP_SEGMENT of declared length 10 holding exactly one
\* GC_ROOT_STICKY_CLASS (9 bytes, idSize 8), parsed through a heap-dump
\* visitor as the last record of the stream, never lets read() resolve:
\* read() rejects with "Buffer underflow".
C5_ShortSegmentUnderflows ==
    (/\ Terminated
     /\ shape.cut = "none"
     /\ idSize = 8
     /\ rec.tag = HEAP_DUMP_SEGMENT
     /\ rec.length = 10
     /\ subSum = 9
     /\ Cursor(buffer) = Len(stream)
     /\ Cursor(buffer) = frameEnd + 9)
        => (pc = "rejected" /\ err = "Buffer underflow")

\* C6: whenever the sub-record loop of a heap-dump record ends without
\* error, the running remaining count is 0, the lengths readSubRecord
\* returned sum to the declared length, and the cursor stands exactly the
\* declared length after the end of the record's frame.
C6_SubRecordsDrainExactly ==
    [][(pc = "sub" /\ pc' = "frame")
          => (/\ remaining = 0
              /\ subSum = rec.length
              /\ Cursor(buffer) = frameEnd + rec.length)]_vars

\* C6 witness: a HEAP_DUMP record of two sub-records was parsed through a
\* heap-dump visitor holding every callback, and its loop ended without error
C6_Witness ==
    /\ pc = "frame"
    /\ rec.tag = HEAP_DUMP
    /\ vis.hd = AllSub
    /\ remaining = 0
    /\ subSum = rec.length
    /\ subSum = 2 + 3 * idSize + 8
    /\ Len(Calls("gcRootThreadObj")) = 1

\* C7: read() resolves only when the EOF that ended the record loop was
\* raised while reading the first byte of a record frame; a stream cut
\* inside a record frame or inside a record body makes read() reject.
\* Taken on sources that deliver the stream as one chunk, where ensure
\* and skip throw EOF only when the bytes are truly missing.
C7_EofSwallowedOnlyAtBoundary ==
    (Resolved /\ shape.cut \in {"frame", "body"} /\ Len(chunks) = 1) => eofAt = "frameTag"

\* the record gates invoked so far, as (tag, tsDelta, length)
Gates == [i \in 1..Len(Calls("record")) |-> Calls("record")[i].args]

\* the frames present in the stream, as (tag, tsDelta, length)
Frames ==
    [i \in 1..Len(shape.frames) |->
        << <<shape.frames[i].tag>>, <<shape.frames[i].tsDelta>>, <<shape.frames[i].length>> >>]

\* C8: when read() resolves on a well-formed stream with a record gate,
\* visitor.record has been invoked exactly once per frame present in the
\* stream, in file order, with the frame's tag, tsDelta and length.
C8_GateOncePerFrame ==
    (Resolved /\ WellFormed /\ vis.gate # "absent") => Gates = Frames

\* C9: when read() resolves, header was invoked exactly once and first, end
\* exactly once and last; and at any time no callback precedes header and
\* none follows end.
C9_HeaderFirstEndLast ==
    /\ log # <<>> => log[1].cb = "header"
    /\ \A i \in 1..Len(log) : /\ log[i].cb = "header" => i = 1
                              /\ log[i].cb = "end" => (i = Len(log) /\ Terminated)
    /\ Resolved => (Len(Calls("header")) = 1 /\ Len(Calls("end")) = 1)

\* C9 witness: read() resolved after a record gate, a record callback and a
\* heap sub-record callback
C9_Witness ==
    /\ Resolved
    /\ Len(Calls("record")) = 2
    /\ Len(Calls("utf8")) = 1
    /\ Len(Calls("gcRootStickyClass")) = 1
    /\ log[Len(log)].cb = "end"

\* C10 as stated: whenever read() has terminated, resolved or rejected, end
\* was invoked exactly once.  Taken on the runs that do not reject with
\* EOF, so that a rejection is one the format's errors prescribe.
C10_EndOnceOnEveryTermination ==
    (Terminated /\ err # "EOF") => Len(Calls("end")) = 1

\* C10 amended: end is invoked exactly once when read() resolves and not at
\* all when it rejects, unless read() rejects with the exception end itself
\* threw; it is never invoked twice.
C10_EndOnceIffResolved ==
    /\ Len(Calls("end")) <= 1
    /\ Resolved => Len(Calls("end")) = 1
    /\ pc = "rejected" =>
        \/ Len(Calls("end")) = 0
        \/ (err = VisitorError /\ log[Len(log)].cb = "end")

\* C10 witness: read() rejected with "Buffer underflow" after the header
\* and a record gate, and end was not invoked
C10_Witness ==
    /\ pc = "rejected"
    /\ err = "Buffer underflow"
    /\ Len(Calls("header")) = 1
    /\ Len(Calls("record")) >= 1
    /\ Len(Calls("end")) = 0

\* C11: whenever read() has terminated, resolved or rejected, the source
\* reader was cancelled exactly once.  Taken on the runs that do not reject
\* with EOF, so that a rejection is one the format's errors or the visitor
\* raise.
C11_CancelOnceOnEveryTermination ==
    (Terminated /\ err # "EOF") => cancels = 1

\* C12: a stream whose header declares idSize 1 or 2 is accepted: read()
\* invokes header and does not fail with the unsupported-identifier-size
\* error.
C12_SmallIdSizesAccepted ==
    (Terminated /\ shape.ids \in {1, 2} /\ err # VisitorError)
        => (Len(Calls("header")) = 1 /\ err # "Unsupported identifier size")

\* C13: every object id delivered to gcRootStickyClass is non-negative (the
\* unsigned big-endian value of its idSize bytes); an id is a number for
\* idSize 4 and big-endian digits with a signed leading digit for idSize 8,
\* so it is negative exactly when its first component is.
C13_IdsNonNegative ==
    \A i \in 1..Len(log) : log[i].cb = "gcRootStickyClass" => log[i].args[1][1] >= 0

\* the callbacks follow increasing byte offset: the cursor position at a
\* callback is never before the position at the callback invoked before it
InOffsetOrder == \A i \in 2..Len(log) : log[i - 1].at <= log[i].at

\* the record gates are invoked at strictly increasing positions
GatesInFileOrder ==
    \A i \in 2..Len(Calls("record")) : Calls("record")[i - 1].at < Calls("record")[i].at

\* the elements of a delivered array of two-byte values are the values at
\* increasing offsets: element k of n is the two bytes 2 * (n - k + 1)
\* before the position of the callback
ElementsInFileOrder ==
    \A i \in 1..Len(log) :
        (log[i].cb = "gcPrimArrayDump" /\ ~log[i].undef
            /\ log[i].args[3][1] \in {Type_SHORT, Type_CHAR})
        => \A k \in 1..Len(log[i].payload) :
              log[i].payload[k]
                  = <<BE(log[i].at - 2 * (Len(log[i].payload) - k + 1), 2, 0)>>

DecodeErrors ==
    {"Unsupported identifier size", "Unsupported value type",
     "Unsupported heap dump sub-record tag", "Buffer underflow"}

\* C15: an error other than EOF raised while decoding (unsupported sub-record
\* tag, unsupported value type, an exception of a visitor callback) makes
\* read() reject with that error in the step that raised it, with no
\* callback after it in that step; once read() has rejected nothing more
\* happens: no callback, no end, no resolution.
C15_ErrorsRejectUnswallowed ==
    [][/\ (buffer'.err \notin {"", "EOF"}) => (pc' = "rejected" /\ err' = buffer'.err)
       /\ (err' \in DecodeErrors) => (pc' = "rejected" /\ log' = log)
       /\ (err' = VisitorError)
             => (pc' = "rejected" /\ Len(log') = Len(log) + 1
                 /\ SubSeq(log', 1, Len(log)) = log)
       /\ pc # "rejected"]_vars

\* read() rejected with an unsupported value type met in a heap dump, after
\* the header and the record gate were called
C15_Witness ==
    /\ pc = "rejected"
    /\ err = "Unsupported value type"
    /\ buffer.err = err
    /\ Len(log) >= 2
    /\ Calls("end") = <<>>

\* what the array and class dump callbacks get under SKIP_VALUES: class and
\* primitive-array values undefined, object-array elements the constant 0n
SkippedArraysAndClasses ==
    \A i \in 1..Len(log) :
        /\ log[i].cb \in {"gcClassDump", "gcPrimArrayDump"}
              => \A k \in 1..Len(log[i].payload) : log[i].payload[k] = <<>>
        /\ log[i].cb = "gcObjArrayDump"
              => \A k \in 1..Len(log[i].payload) : log[i].payload[k] = <<0>>

\* C18: with SKIP_VALUES set the payloads handed to gcClassDump,
\* gcInstanceDump, gcObjArrayDump and gcPrimArrayDump hold nothing read
\* from the stream: values undefined, element ids the constant zero, the
\* field bytes of an instance an empty slice.
C18_SkipValuesDeliverNoPayload ==
    skipValues =>
        /\ SkippedArraysAndClasses
        /\ \A i \in 1..Len(log) :
              log[i].cb = "gcInstanceDump" => log[i].payload[1][2] = 0

\* both calls of read() have settled, neither through a visitor exception
BothSettled == Terminated /\ first # NoRun /\ err # VisitorError

\* the two calls ended alike: both resolved, or both rejected with the same error
SameOutcome == first.pc = pc /\ first.err = err

\* C16: on the same stream a visitor without callbacks and a visitor
\* registering every callback give the same cursor positions at the record
\* frames, the same number of frames and the same outcome. Stated for the
\* streams that are not truncated and arrive in one chunk, where no refill
\* of the buffer is involved.
C16_CallbacksDoNotMoveCursor ==
    (BothSettled /\ pair = "visitor" /\ shape.cut = "none" /\ Len(chunks) = 1)
        => (first.trail = trail /\ SameOutcome)

\* the same for well-formed streams, however they are cut into chunks
C16_OnWellFormedStreams ==
    (BothSettled /\ pair = "visitor" /\ WellFormed) => (first.trail = trail /\ SameOutcome)

\* what the visitor sees of a callback: its name and arguments
Visible(c) == [cb |-> c.cb, args |-> c.args, payload |-> c.payload, undef |-> c.undef]
Seen(l) == [i \in 1..Len(l) |-> Visible(l[i])]

\* C17: two calls over the same bytes cut into chunks differently invoke
\* the same callbacks with the same arguments and end alike. Stated for
\* well-formed streams.
C17_ChunkingInvisible ==
    (BothSettled /\ pair = "chunks" /\ WellFormed)
        => (Seen(first.log) = Seen(log) /\ SameOutcome)

\* a callback without its payload arguments, at the cursor position of its
\* call; end is called where the EOF left the cursor, inside a sub-record
\* that was not consumed, so its position is left out
Skeleton(c) == [cb |-> c.cb, at |-> IF c.cb = "end" THEN 0 ELSE c.at, args |-> c.args]
Skeletons(l) == [i \in 1..Len(l) |-> Skeleton(l[i])]

\* C19: with and without SKIP_VALUES the cursor advances alike, so the
\* callbacks, their payload arguments set aside, come in the same sequence
\* at the same positions and read() ends alike. Stated for well-formed
\* streams.
C19_SkipValuesSameSkeleton ==
    (BothSettled /\ pair = "flags" /\ WellFormed)
        => (Skeletons(first.log) = Skeletons(log) /\ first.trail = trail /\ SameOutcome)

\* the gcObjArrayDump calls made for the array class id
DumpsOf(id) == SelectSeq(log, LAMBDA c : c.cb = "gcObjArrayDump" /\ c.args[3] = id)

\* the entries end() emitted for the array class id
EntriesOf(id) == SelectSeq(agg.entries, LAMBDA e : e.type = "OBJ_ARRAY" /\ e.id = id)

RECURSIVE SumElems(_)
SumElems(ds) == IF ds = <<>> THEN 0 ELSE Len(Head(ds).payload) + SumElems(Tail(ds))

RECURSIVE MaxElemsOf(_)
MaxElemsOf(ds) ==
    IF ds = <<>> THEN 0
    ELSE IF Len(Head(ds).payload) > MaxElemsOf(Tail(ds)) THEN Len(Head(ds).payload)
    ELSE MaxElemsOf(Tail(ds))

\* one entry per dumped array class, with count, elemCount and totalSize
ObjArrayTotals ==
    pc = "slurped" =>
        \A id \in SlurpClassIds :
            DumpsOf(id) # <<>> =>
                /\ Len(EntriesOf(id)) = 1
                /\ EntriesOf(id)[1].count = Len(DumpsOf(id))
                /\ EntriesOf(id)[1].elemCount = SumElems(DumpsOf(id))
                /\ EntriesOf(id)[1].totalSize =
                       (agg.idSize + 8) * Len(DumpsOf(id)) + agg.idSize * SumElems(DumpsOf(id))

\* C20: for each array class id with at least one gcObjArrayDump, end()
\* emits one OBJ_ARRAY entry whose count is the number of dumps, elemCount
\* the total element count, totalSize (idSize+8)*count + idSize*elemCount
\* and largestSize (idSize+8) + idSize * the largest elems.length among the
\* dumps of that class.
C20_ObjArrayEntry ==
    /\ ObjArrayTotals
    /\ pc = "slurped" =>
          \A id \in SlurpClassIds :
              DumpsOf(id) # <<>> =>
                  EntriesOf(id)[1].largestSize =
                      (agg.idSize + 8) + agg.idSize * MaxElemsOf(DumpsOf(id))

\* the gcClassDump calls made for the class id, and the last of them
ClassDumpsOf(id) == SelectSeq(log, LAMBDA c : c.cb = "gcClassDump" /\ c.args[1] = id)
ClassDumped(id) == ClassDumpsOf(id) # <<>>
LastClassDump(id) == ClassDumpsOf(id)[Len(ClassDumpsOf(id))]

\* the gcInstanceDump calls made for the class id
InstanceDumpsOf(id) == SelectSeq(log, LAMBDA c : c.cb = "gcInstanceDump" /\ c.args[3] = id)

\* the INSTANCE entries end() emitted for the class id
InstanceEntriesOf(id) == SelectSeq(agg.entries, LAMBDA e : e.type = "INSTANCE" /\ e.id = id)

\* align(x, a) = x + (x mod a)
align(x, a) == x + (x % a)

\* the instance sizes of the class and of its ancestors, following super
\* ids while each has a class dump
RECURSIVE ChainSize(_)
ChainSize(id) ==
    IF id = BigInt(0) \/ ~ClassDumped(id) THEN 0
    ELSE LastClassDump(id).args[4][1] + ChainSize(LastClassDump(id).args[3])

\* C21: for each class with at least one gcInstanceDump and a gcClassDump
\* (before or after the instance dumps) end() emits one INSTANCE entry whose
\* count is the number of instance dumps, whose largestSize is
\* align(align(idSize+4, idSize) + instance sizes along the super chain,
\* idSize) and whose totalSize is largestSize * count; for idSize 8,
\* A(8, super 0), B(16, super A) and two instance dumps of B that is count 2,
\* largestSize 40, totalSize 80.
C21_InstanceEntry ==
    pc = "slurped" =>
        \A id \in {ClsA, ClsB} :
            (InstanceDumpsOf(id) # <<>> /\ ClassDumped(id)) =>
                /\ Len(InstanceEntriesOf(id)) = 1
                /\ InstanceEntriesOf(id)[1].count = Len(InstanceDumpsOf(id))
                /\ InstanceEntriesOf(id)[1].largestSize =
                       align(align(agg.idSize + 4, agg.idSize) + ChainSize(id), agg.idSize)
                /\ InstanceEntriesOf(id)[1].totalSize =
                       InstanceEntriesOf(id)[1].largestSize * Len(InstanceDumpsOf(id))
                /\ (/\ id = ClsB
                    /\ agg.idSize = 8
                    /\ Len(InstanceDumpsOf(ClsB)) = 2
                    /\ ClassDumped(ClsA)
                    /\ LastClassDump(ClsA).args = <<ClsA, <<0>>, BigInt(0), <<8>> >>
                    /\ LastClassDump(ClsB).args = <<ClsB, <<0>>, ClsA, <<16>> >>)
                    => (/\ InstanceEntriesOf(id)[1].count = 2
                        /\ InstanceEntriesOf(id)[1].largestSize = 40
                        /\ InstanceEntriesOf(id)[1].totalSize = 80)

\* end() has run on idSize 8, A(8, super 0), B(16, super A), B dumped after
\* its two instances
C21_Witness ==
    /\ pc = "slurped"
    /\ agg.idSize = 8
    /\ Len(InstanceDumpsOf(ClsB)) = 2
    /\ ClassDumped(ClsA) /\ ClassDumped(ClsB)
    /\ LastClassDump(ClsA).args = <<ClsA, <<0>>, BigInt(0), <<8>> >>
    /\ LastClassDump(ClsB).args = <<ClsB, <<0>>, ClsA, <<16>> >>
    /\ log[Len(log) - 1].cb = "gcClassDump"
    /\ InstanceEntriesOf(ClsB)[1].largestSize = 40

\* the gcPrimArrayDump calls made for the element type
PrimDumpsOf(t) == SelectSeq(log, LAMBDA c : c.cb = "gcPrimArrayDump" /\ c.args[3] = <<t>>)

\* the PRIM_ARRAY entries end() emitted for the element type
PrimEntriesOf(t) ==
    SelectSeq(agg.entries, LAMBDA e : e.type = "PRIM_ARRAY" /\ e.id = BigInt(t))

\* the primitive element types with the size and the JNI code of each
Primitives ==
    (Type_BOOLEAN :> [size |-> 1, code |-> "Z"]) @@ (Type_CHAR :> [size |-> 2, code |-> "C"]) @@
    (Type_FLOAT :> [size |-> 4, code |-> "F"]) @@ (Type_DOUBLE :> [size |-> 8, code |-> "D"]) @@
    (Type_BYTE :> [size |-> 1, code |-> "B"]) @@ (Type_SHORT :> [size |-> 2, code |-> "S"]) @@
    (Type_INT :> [size |-> 4, code |-> "I"]) @@ (Type_LONG :> [size |-> 8, code |-> "J"])

\* C22: for each primitive element type t with at least one gcPrimArrayDump
\* end() emits one PRIM_ARRAY entry with id t, count the number of dumps,
\* elemCount the total of elements, totalSize (idSize+8)*count +
\* valueSize(t)*elemCount + 4*count, largestSize align(idSize+8 +
\* valueSize(t)*largest element count, idSize) and name "[" followed by the
\* JNI code; for idSize 8 and one INT array of 3 elements that is count 1,
\* elemCount 3, largestSize 32, totalSize 32, name "[I".
C22_PrimArrayEntry ==
    pc = "slurped" =>
        \A t \in DOMAIN Primitives :
            PrimDumpsOf(t) # <<>> =>
                /\ Len(PrimEntriesOf(t)) = 1
                /\ PrimEntriesOf(t)[1].count = Len(PrimDumpsOf(t))
                /\ PrimEntriesOf(t)[1].elemCount = SumElems(PrimDumpsOf(t))
                /\ PrimEntriesOf(t)[1].totalSize =
                       (agg.idSize + 8) * Len(PrimDumpsOf(t))
                       + Primitives[t].size * SumElems(PrimDumpsOf(t))
                       + 4 * Len(PrimDumpsOf(t))
                /\ PrimEntriesOf(t)[1].largestSize =
                       align(agg.idSize + 8 + Primitives[t].size * MaxElemsOf(PrimDumpsOf(t)),
                             agg.idSize)
                /\ PrimEntriesOf(t)[1].name = <<"[" \o Primitives[t].code>>
                /\ (/\ t = Type_INT
                    /\ agg.idSize = 8
                    /\ Len(PrimDumpsOf(t)) = 1
                    /\ SumElems(PrimDumpsOf(t)) = 3)
                    => (/\ PrimEntriesOf(t)[1].count = 1
                        /\ PrimEntriesOf(t)[1].elemCount = 3
                        /\ PrimEntriesOf(t)[1].largestSize = 32
                        /\ PrimEntriesOf(t)[1].totalSize = 32
                        /\ PrimEntriesOf(t)[1].name = <<"[I">>)

\* end() has run on idSize 8 after INT arrays of 3, 0 and 1 elements
C22_Witness ==
    /\ pc = "slurped"
    /\ agg.idSize = 8
    /\ Len(PrimDumpsOf(Type_INT)) = 3
    /\ Len(PrimDumpsOf(Type_INT)[1].payload) = 3
    /\ Len(PrimDumpsOf(Type_INT)[3].payload) = 1
    /\ PrimEntriesOf(Type_INT)[1].elemCount = 4

\* end() has run on idSize 8 after one INT array of 3 elements
C22_Example ==
    /\ pc = "slurped"
    /\ agg.idSize = 8
    /\ Len(PrimDumpsOf(Type_INT)) = 1
    /\ PrimEntriesOf(Type_INT)[1].largestSize = 32

\* C23: an INSTANCE entry whose class id never appeared in a gcClassDump is
\* still emitted, with its exact count and with totalSize and largestSize
\* -1; when the super id of a dumped class has no class dump the walk up
\* the chain stops there and the size gathered so far is used.
C23_UnknownClassAndBrokenChain ==
    pc = "slurped" =>
        \A id \in {ClsA, ClsB} :
            InstanceDumpsOf(id) # <<>> =>
                /\ ~ClassDumped(id) =>
                      /\ Len(InstanceEntriesOf(id)) = 1
                      /\ InstanceEntriesOf(id)[1].count = Len(InstanceDumpsOf(id))
                      /\ InstanceEntriesOf(id)[1].totalSize = -1
                      /\ InstanceEntriesOf(id)[1].largestSize = -1
                /\ (ClassDumped(id) /\ ~ClassDumped(LastClassDump(id).args[3])) =>
                      /\ Len(InstanceEntriesOf(id)) = 1
                      /\ InstanceEntriesOf(id)[1].largestSize =
                             align(align(agg.idSize + 4, agg.idSize)
                                   + LastClassDump(id).args[4][1], agg.idSize)
                      /\ InstanceEntriesOf(id)[1].totalSize =
                             InstanceEntriesOf(id)[1].largestSize * Len(InstanceDumpsOf(id))

\* end() has run after instance dumps of A, which has no class dump, and of
\* B, whose class dump names A as its super class
C23_Witness ==
    /\ pc = "slurped"
    /\ Len(InstanceDumpsOf(ClsA)) = 2
    /\ ~ClassDumped(ClsA)
    /\ InstanceDumpsOf(ClsB) # <<>>
    /\ ClassDumped(ClsB)
    /\ LastClassDump(ClsB).args[3] = ClsA
    /\ InstanceEntriesOf(ClsA)[1].largestSize = -1
    /\ InstanceEntriesOf(ClsB)[1].largestSize > 0

\* the entries of one kind that end() emitted
KindEntries(type) == SelectSeq(agg.entries, LAMBDA e : e.type = type)

\* the distinct keys (class id, array class id, element type) the events
\* of one callback were filed under
SeenKeys(cb) ==
    { IF cb = "gcPrimArrayDump" THEN BigInt(Calls(cb)[i].args[3][1]) ELSE Calls(cb)[i].args[3] :
          i \in 1..Len(Calls(cb)) }

RECURSIVE SumCounts(_)
SumCounts(es) == IF es = <<>> THEN 0 ELSE Head(es).count + SumCounts(Tail(es))

\* the callback feeding each kind of entry
KindCallback ==
    ("INSTANCE" :> "gcInstanceDump") @@ ("OBJ_ARRAY" :> "gcObjArrayDump") @@
    ("PRIM_ARRAY" :> "gcPrimArrayDump")

\* C24: after end(), entries holds exactly one INSTANCE entry per distinct
\* class id seen in gcInstanceDump, one OBJ_ARRAY entry per distinct array
\* class id seen in gcObjArrayDump and one PRIM_ARRAY entry per distinct
\* element type seen in gcPrimArrayDump, and nothing else; the counts of
\* each kind sum to the number of events of that kind, and every count is
\* at least 1.
C24_OneEntryPerKey ==
    pc = "slurped" =>
        /\ \A type \in DOMAIN KindCallback :
              /\ Len(KindEntries(type)) = Cardinality(SeenKeys(KindCallback[type]))
              /\ { KindEntries(type)[i].id : i \in 1..Len(KindEntries(type)) }
                     = SeenKeys(KindCallback[type])
              /\ SumCounts(KindEntries(type)) = Len(Calls(KindCallback[type]))
              /\ \A i \in 1..Len(KindEntries(type)) : KindEntries(type)[i].count >= 1
        /\ Len(agg.entries) =
               Len(KindEntries("INSTANCE")) + Len(KindEntries("OBJ_ARRAY"))
               + Len(KindEntries("PRIM_ARRAY"))

\* end() has run after three instance dumps filed under two class ids
C24_Witness ==
    /\ pc = "slurped"
    /\ Len(Calls("gcInstanceDump")) = 3
    /\ Cardinality(SeenKeys("gcInstanceDump")) = 2
    /\ Len(agg.entries) = 2

\* end() has run after events of all three kinds
C24_AllKinds ==
    /\ pc = "slurped"
    /\ \A type \in DOMAIN KindCallback : Len(KindEntries(type)) = 1

\* the six internal maps of the aggregator
SixMaps == <<agg.strings, agg.classNames, agg.classes, agg.instances, agg.objArrays, agg.primArrays>>

\* C25: the aggregator's entries field is unset during header and record
\* processing and is populated only by end(); when end() returns, all six
\* internal maps (strings, classNames, classes, instances, objArrays,
\* primArrays) are empty.
C25_EntriesOnlyAtEnd ==
    /\ pc \in {"slurp", "slurping"} => (~agg.hasEntries /\ agg.entries = <<>>)
    /\ pc = "slurped" =>
          /\ agg.hasEntries
          /\ \A i \in 1..Len(SixMaps) : SixMaps[i] = <<>>

\* end() has run after a name was loaded and a class, an instance, an
\* object array and a primitive array were dumped
C25_Witness ==
    /\ pc = "slurped"
    /\ agg.hasEntries
    /\ Len(agg.entries) = 3
    /\ \A cb \in {"utf8", "loadClass", "gcClassDump", "gcInstanceDump",
                    "gcObjArrayDump", "gcPrimArrayDump"} : Calls(cb) # <<>>

\* just before end(): entries unset and several maps filled
C25_BeforeEnd ==
    /\ pc = "slurping"
    /\ ~agg.hasEntries
    /\ agg.classNames # <<>> /\ agg.classes # <<>> /\ agg.instances # <<>>
    /\ agg.objArrays # <<>> /\ agg.primArrays # <<>>

\* the record visitor holds no callback for the tag of the record framed
NoTagCallback ==
    ~(rec.tag \in DOMAIN recordHandlers /\ recordHandlers[rec.tag] \in vis.rv)

\* the call raw(bytes) over the L body bytes of the record framed
RawOfBody == Call("raw", frameEnd + rec.length, <<>>, <<<<frameEnd, rec.length>>>>, FALSE)

\* C26: for a record whose gate returned a record visitor that lacks the
\* callback for the record's tag (tags without any callback included), raw,
\* when registered, is called exactly once with exactly the L body bytes in
\* stream order, otherwise the body is skipped; no per-tag callback fires.
C26_RawOrSkip ==
    [][(pc = "body" /\ WellFormed /\ vis.gate = "rv" /\ NoTagCallback) =>
          IF "raw" \in vis.rv
          THEN log' = Append(log, RawOfBody)
          ELSE /\ log' = log
               /\ Cursor(buffer') = frameEnd + rec.length
               /\ pc' = "frame"]_vars

\* C26 for streams the source delivers in one chunk
C26_RawOrSkipOneChunk ==
    [][(pc = "body" /\ WellFormed /\ Len(chunks) = 1 /\ vis.gate = "rv" /\ NoTagCallback) =>
          IF "raw" \in vis.rv
          THEN log' = Append(log, RawOfBody)
          ELSE /\ log' = log
               /\ Cursor(buffer') = frameEnd + rec.length
               /\ pc' = "frame"]_vars

\* raw has received the body of a record with a non-empty body
C26_Witness ==
    /\ WellFormed
    /\ pc = "frame"
    /\ NoTagCallback
    /\ rec.length > 0
    /\ log # <<>>
    /\ log[Len(log)] = RawOfBody

\* a record without a callback and without raw was skipped
C26_Skipped ==
    /\ WellFormed
    /\ pc = "frame"
    /\ vis.gate = "rv"
    /\ vis.rv = {}
    /\ rec.length > 0
    /\ Cursor(buffer) = frameEnd + rec.length

\* the body of a UTF8 record is about to be decoded for a registered utf8
Utf8Taken == pc = "body" /\ rec.tag = UTF8 /\ vis.gate = "rv" /\ "utf8" \in vis.rv

\* utf8(id, string): the id of the first idSize body bytes, the string over
\* the rec.length - idSize bytes that follow
Utf8OfBody ==
    Call("utf8", frameEnd + rec.length,
         << IF idSize = 8 THEN SignedDigits(frameEnd, 8) ELSE <<SignedBE(frameEnd, 4)>> >>,
         << <<frameEnd + idSize, rec.length - idSize>> >>, FALSE)

\* a UTF8 record of declared length L >= idSize whose bytes the stream holds
\* yields utf8(id, string) and leaves the cursor L bytes after the frame
C27_Utf8Decoded ==
    [][(Utf8Taken /\ rec.length >= idSize /\ shape.cut = "none") =>
          /\ log' = Append(log, Utf8OfBody)
          /\ Cursor(buffer') = frameEnd + rec.length]_vars

\* a UTF8 record of declared length L < idSize, its L body bytes in the
\* stream, makes read() reject
C27_ShortUtf8Rejects ==
    [][(Utf8Taken /\ rec.length < idSize /\ shape.cut = "none") => (pc' = "rejected" /\ err' # "")]_vars

\* C27: for a UTF8 record with declared length L >= idSize and utf8
\* registered, the callback receives the id read from the first idSize body
\* bytes and the string decoded from exactly the following L - idSize
\* bytes, and the cursor ends exactly L bytes after the frame; a UTF8 record
\* with L < idSize makes read() fail with an error.
C27_Utf8Record ==
    [][/\ (Utf8Taken /\ rec.length >= idSize /\ shape.cut = "none") =>
             /\ log' = Append(log, Utf8OfBody)
             /\ Cursor(buffer') = frameEnd + rec.length
       /\ (Utf8Taken /\ rec.length < idSize /\ shape.cut = "none") => (pc' = "rejected" /\ err' # "")]_vars

\* C27_Utf8Decoded for streams the source delivers in one chunk
C27_Utf8DecodedOneChunk ==
    [][(Utf8Taken /\ rec.length >= idSize /\ shape.cut = "none" /\ Len(chunks) = 1) =>
          /\ log' = Append(log, Utf8OfBody)
          /\ Cursor(buffer') = frameEnd + rec.length]_vars

\* a short UTF8 record that another record follows made read() reject
C27_ShortRejected ==
    /\ pc = "rejected"
    /\ err = "RangeError"
    /\ rec.tag = UTF8
    /\ rec.length < idSize

(***************************************************************************)
(* index.ts: valueSize(type, idSize) called on its own                     *)
(***************************************************************************)

\* the largest type code tried
MaxType == 15

\* the type codes tried: the ten of the Type enum, 0, 3 and 12 and above
TypeCodes == 0..MaxType

\* the idSize arguments tried: the parameter's default -1, and 1, 2, 3, 4, 8
ValueIdSizes == {-1} \cup OtherIdSizes \cup IdSizes

\* valueSize is about to be called with a type code and an idSize
InitValueSize ==
    /\ stream = <<>>
    /\ chunks = <<>>
    /\ \E t \in TypeCodes, ids \in ValueIdSizes :
         shape = [frames |-> <<>>, framed |-> FALSE, layoutOk |-> FALSE, cut |-> "none",
                  ids |-> ids, type |-> t]
    /\ flags = 0
    /\ vis = [gate |-> "absent", rv |-> {}, hdNull |-> TRUE, hd |-> {}]
    /\ buffer = wrap
    /\ pc = "valueSize"
    /\ idSize = 0
    /\ rec = NoRec
    /\ remaining = 0
    /\ frameEnd = 0
    /\ subSum = 0
    /\ err = ""
    /\ eofAt = "none"
    /\ log = <<>>
    /\ cancels = 0
    /\ lastOp = NoOp
    /\ trail = <<>>
    /\ first = NoRun
    /\ pair = "single"
    /\ agg = slurp

\* valueSize(shape.type, shape.ids): throws, or returns a size (kept in
\* remaining)
ValueSizeCall ==
    /\ pc = "valueSize"
    /\ IF valueSizeThrows(shape.type)
       THEN /\ pc' = "threw"
            /\ err' = "Unsupported value type"
            /\ UNCHANGED remaining
       ELSE /\ pc' = "returned"
            /\ remaining' = valueSize(shape.type, shape.ids)
            /\ UNCHANGED err
    /\ UNCHANGED <<stream, chunks, flags, vis, shape, buffer, idSize, rec, frameEnd, subSum,
                   eofAt, log, cancels, lastOp, trail, first, pair, agg>>

NextValueSize == ValueSizeCall

SpecValueSize == InitValueSize /\ [][NextValueSize]_vars

\* the size the format gives a type code, 0 for none
SizeOfType(t, ids) ==
    CASE t \in {Type_BOOLEAN, Type_BYTE} -> 1
      [] t \in {Type_CHAR, Type_SHORT} -> 2
      [] t \in {Type_FLOAT, Type_INT} -> 4
      [] t \in {Type_DOUBLE, Type_LONG} -> 8
      [] t \in {Type_ARRAY_OBJECT, Type_NORMAL_OBJECT} -> ids
      [] OTHER -> 0

\* the type codes of the format
TypesOfFormat ==
    {Type_BOOLEAN, Type_BYTE, Type_CHAR, Type_SHORT, Type_FLOAT, Type_INT, Type_DOUBLE,
     Type_LONG, Type_ARRAY_OBJECT, Type_NORMAL_OBJECT}

\* C28: valueSize(type, idSize) returns 1 for BOOLEAN and BYTE, 2 for CHAR
\* and SHORT, 4 for FLOAT and INT, 8 for DOUBLE and LONG, idSize for
\* ARRAY_OBJECT and NORMAL_OBJECT, and fails with an unsupported-type error
\* for every other type code (0, 3, 12 and above).
C28_ValueSizeTable ==
    pc \in {"returned", "threw"} =>
        IF shape.type \in TypesOfFormat
        THEN pc = "returned" /\ remaining = SizeOfType(shape.type, shape.ids)
        ELSE /\ shape.type \in {0, 3} \cup 12..MaxType
             /\ pc = "threw"
             /\ err = "Unsupported value type"

\* valueSize returned 8 for an object reference with idSize 8
C28_Witness ==
    /\ pc = "returned"
    /\ shape.type = Type_NORMAL_OBJECT
    /\ shape.ids = 8
    /\ remaining = 8

\* valueSize returned 2 for CHAR
C28_Char == pc = "returned" /\ shape.type = Type_CHAR /\ remaining = 2

\* valueSize threw for the type code 3
C28_Threw == pc = "threw" /\ shape.type = 3 /\ err = "Unsupported value type"

(***************************************************************************)
(* index.ts: readSubRecord called on one sub-record                        *)
(***************************************************************************)

\* the GC-root sub-records of the format: how many identifiers and how many
\* further bytes follow the tag
RootLayout ==
    (GC_ROOT_UNKNOWN :> [nIds |-> 1, extra |-> 0]) @@
    (GC_ROOT_JNI_GLOBAL :> [nIds |-> 2, extra |-> 0]) @@
    (GC_ROOT_JNI_LOCAL :> [nIds |-> 1, extra |-> 8]) @@
    (GC_ROOT_JAVA_FRAME :> [nIds |-> 1, extra |-> 8]) @@
    (GC_ROOT_NATIVE_STACK :> [nIds |-> 1, extra |-> 4]) @@
    (GC_ROOT_STICKY_CLASS :> [nIds |-> 1, extra |-> 0]) @@
    (GC_ROOT_THREAD_BLOCK :> [nIds |-> 1, extra |-> 4]) @@
    (GC_ROOT_MONITOR_USED :> [nIds |-> 1, extra |-> 0]) @@
    (GC_ROOT_THREAD_OBJ :> [nIds |-> 1, extra |-> 8])

\* n bytes of value x
Bytes(n, x) == [i \in 1..n |-> x]

RootBytes(tag, ids) ==
    <<tag>> \o IdB(ids, 3) \o (IF RootLayout[tag].nIds = 2 THEN IdB(ids, 4) ELSE <<>>)
        \o Bytes(RootLayout[tag].extra, 1)

\* the constant pool of a class dump: u2 index, u1 type, value
RECURSIVE PoolBytes(_, _)
PoolBytes(types, ids) ==
    IF types = <<>> THEN <<>>
    ELSE U16(Len(types)) \o <<Head(types)>> \o Bytes(SizeOfType(Head(types), ids), 2)
             \o PoolBytes(Tail(types), ids)

\* the static fields of a class dump: id name, u1 type, value
RECURSIVE StaticBytes(_, _)
StaticBytes(types, ids) ==
    IF types = <<>> THEN <<>>
    ELSE IdB(ids, Len(types)) \o <<Head(types)>> \o Bytes(SizeOfType(Head(types), ids), 3)
             \o StaticBytes(Tail(types), ids)

\* the instance fields of a class dump: id name, u1 type
RECURSIVE InstBytes(_, _)
InstBytes(n, ids) ==
    IF n = 0 THEN <<>> ELSE IdB(ids, n) \o <<Type_INT>> \o InstBytes(n - 1, ids)

\* a class dump with the given constant-pool types, static-field types and
\* number of instance fields
ClassBytes(c, ids) ==
    <<GC_CLASS_DUMP>> \o IdB(ids, 2) \o U32(0) \o IdB(ids, 1) \o IdB(ids, 0) \o IdB(ids, 0)
        \o IdB(ids, 0) \o IdB(ids, 0) \o IdB(ids, 0) \o U32(8)
        \o U16(Len(c.pool)) \o PoolBytes(c.pool, ids)
        \o U16(Len(c.statics)) \o StaticBytes(c.statics, ids)
        \o U16(c.insts) \o InstBytes(c.insts, ids)

NoClass == [pool |-> <<>>, statics |-> <<>>, insts |-> 0]

ClassShapes ==
    { NoClass,
      [pool |-> <<Type_BYTE>>, statics |-> <<Type_INT>>, insts |-> 1],
      [pool |-> <<Type_LONG, Type_NORMAL_OBJECT>>, statics |-> <<Type_CHAR, Type_ARRAY_OBJECT>>,
       insts |-> 2] }

\* the field byte counts and element counts of the dumps tried
DumpCounts == {0, 1, 3}

\* the element types of the primitive arrays tried
DumpTypes == {Type_BOOLEAN, Type_CHAR, Type_INT, Type_LONG, Type_NORMAL_OBJECT}

\* an instance dump: id, u4 stack serial, id class, u4 nBytes, the field bytes
InstanceBytes(n, ids) ==
    <<GC_INSTANCE_DUMP>> \o IdB(ids, 4) \o U32(0) \o IdB(ids, 2) \o U32(n) \o Bytes(n, 7)

\* an object array dump: id, u4 stack serial, u4 n, id array class, n ids
ObjArrayBytes(n, ids) ==
    <<GC_OBJ_ARRAY_DUMP>> \o IdB(ids, 5) \o U32(0) \o U32(n) \o IdB(ids, 6)
        \o Flatten([i \in 1..n |-> IdB(ids, i)])

\* a primitive array dump: id, u4 stack serial, u4 n, u1 type, n values
PrimArrayBytes(n, t, ids) ==
    <<GC_PRIM_ARRAY_DUMP>> \o IdB(ids, 7) \o U32(0) \o U32(n) \o <<t>>
        \o Bytes(n * SizeOfType(t, ids), 5)

\* the sub-records tried: each GC root, the class dumps, and instance,
\* object array and primitive array dumps
SubRecords(ids) ==
    { [tag |-> t, class |-> NoClass, n |-> 0, type |-> 0, bytes |-> RootBytes(t, ids)] :
          t \in DOMAIN RootLayout }
    \cup { [tag |-> GC_CLASS_DUMP, class |-> c, n |-> 0, type |-> 0,
            bytes |-> ClassBytes(c, ids)] : c \in ClassShapes }
    \cup { [tag |-> GC_INSTANCE_DUMP, class |-> NoClass, n |-> n, type |-> 0,
            bytes |-> InstanceBytes(n, ids)] : n \in DumpCounts }
    \cup { [tag |-> GC_OBJ_ARRAY_DUMP, class |-> NoClass, n |-> n, type |-> 0,
            bytes |-> ObjArrayBytes(n, ids)] : n \in DumpCounts }
    \cup { [tag |-> GC_PRIM_ARRAY_DUMP, class |-> NoClass, n |-> n, type |-> t,
            bytes |-> PrimArrayBytes(n, t, ids)] : n \in DumpCounts, t \in DumpTypes }

\* the bytes that follow the sub-record in the stream: none, or a minimum refill
Paddings == {0, MIN_READ}

\* the heap-dump visitors tried: empty, the four dump callbacks, everything
SubVisitors == { {}, {"gcClassDump", "gcInstanceDump", "gcObjArrayDump", "gcPrimArrayDump"}, AllSub }

\* readSubRecord is about to be called on a buffer that wraps a source
\* holding one sub-record
InitSub ==
    /\ \E ids \in IdSizes :
         /\ idSize = ids
         /\ \E r \in SubRecords(ids), pad \in Paddings :
              /\ stream = r.bytes \o Bytes(pad, 0)
              /\ chunks \in Chunkings(Len(r.bytes) + pad)
              /\ shape = [frames |-> <<>>, framed |-> TRUE, layoutOk |-> TRUE, cut |-> "none",
                          ids |-> ids, tag |-> r.tag, class |-> r.class, size |-> Len(r.bytes),
                          n |-> r.n, type |-> r.type]
    /\ flags \in {0, SKIP_VALUES}
    /\ \E hd \in SubVisitors :
         vis = [gate |-> "rv", rv |-> AllTags, hdNull |-> FALSE, hd |-> hd]
    /\ buffer = wrap
    /\ pc = "readSubRecord"
    /\ rec = NoRec
    /\ remaining = 0
    /\ frameEnd = 0
    /\ subSum = 0
    /\ err = ""
    /\ eofAt = "none"
    /\ log = <<>>
    /\ cancels = 0
    /\ lastOp = NoOp
    /\ trail = <<>>
    /\ first = NoRun
    /\ pair = "single"
    /\ agg = slurp

\* readSubRecord(ctx, visitor): returns a length (kept in subSum) or throws
ReadOneSubRecord ==
    /\ pc = "readSubRecord"
    /\ LET sub(r) ==
               /\ buffer' = r.b
               /\ log' = log \o r.ev
               /\ IF r.b.err = ""
                  THEN /\ pc' = "returned"
                       /\ subSum' = r.len
                       /\ UNCHANGED err
                  ELSE /\ pc' = "threw"
                       /\ err' = r.b.err
                       /\ UNCHANGED subSum
       IN  sub(readSubRecord(buffer, vis.hd, idSize))
    /\ UNCHANGED <<stream, chunks, flags, vis, shape, idSize, rec, remaining, frameEnd, eofAt,
                   cancels, lastOp, trail, first, pair, agg>>

NextSub == ReadOneSubRecord

SpecSub == InitSub /\ [][NextSub]_vars

\* the length the format gives a GC-root sub-record, tag byte included
RootLength(tag, ids) ==
    CASE tag \in {GC_ROOT_UNKNOWN, GC_ROOT_STICKY_CLASS, GC_ROOT_MONITOR_USED} -> 1 + ids
      [] tag = GC_ROOT_JNI_GLOBAL -> 1 + 2 * ids
      [] tag \in {GC_ROOT_JNI_LOCAL, GC_ROOT_JAVA_FRAME, GC_ROOT_THREAD_OBJ} -> 1 + ids + 8
      [] tag \in {GC_ROOT_NATIVE_STACK, GC_ROOT_THREAD_BLOCK} -> 1 + ids + 4

\* the callback of the sub-record's tag is registered
RootRegistered == constSubRecordHandlers[shape.tag].handler \in vis.hd

\* C29: for each of the nine GC-root sub-record tags, the decoder without a
\* callback for it skips and returns a consumed length equal to the length
\* returned, and the bytes advanced, by the field-by-field path taken with
\* the callback: 1+id for UNKNOWN, STICKY_CLASS and MONITOR_USED; 1+2*id for
\* JNI_GLOBAL; 1+id+8 for JNI_LOCAL, JAVA_FRAME and THREAD_OBJ; 1+id+4 for
\* NATIVE_STACK and THREAD_BLOCK.
C29_RootFastPathLength ==
    (pc = "returned" /\ shape.tag \in DOMAIN RootLayout) =>
        /\ subSum = RootLength(shape.tag, idSize)
        /\ Cursor(buffer) = RootLength(shape.tag, idSize)
        /\ IF RootRegistered
           THEN Len(log) = 1 /\ log[1].cb = constSubRecordHandlers[shape.tag].handler
           ELSE log = <<>>

\* the fast path skipped a JNI_GLOBAL root of two 8-byte identifiers that
\* the source delivered in several chunks
C29_Witness ==
    /\ pc = "returned"
    /\ shape.tag = GC_ROOT_JNI_GLOBAL
    /\ ~RootRegistered
    /\ idSize = 8
    /\ Len(chunks) > 1
    /\ subSum = 17
    /\ Cursor(buffer) = 17

\* the field-by-field path read a THREAD_BLOCK root
C29_FieldPath ==
    /\ pc = "returned"
    /\ shape.tag = GC_ROOT_THREAD_BLOCK
    /\ RootRegistered
    /\ subSum = 1 + idSize + 4
    /\ Len(log) = 1

RECURSIVE SumSizes(_, _, _)
SumSizes(types, ids, each) ==
    IF types = <<>> THEN 0
    ELSE each + SizeOfType(Head(types), ids) + SumSizes(Tail(types), ids, each)

\* 1 + 7*idSize + 8 + 2 + sum over constant-pool items of (3 + size) + 2 +
\* sum over static fields of (idSize + 1 + size) + 2 + count * (idSize + 1)
ClassLength(c, ids) ==
    1 + 7 * ids + 8 + 2 + SumSizes(c.pool, ids, 3) + 2 + SumSizes(c.statics, ids, ids + 1)
      + 2 + c.insts * (ids + 1)

\* C30: for GC_CLASS_DUMP the length returned equals the bytes actually
\* advanced and equals 1 + 7*idSize + 8 + 2 + sum over constant-pool items
\* of (3 + valueSize(type)) + 2 + sum over static fields of (idSize + 1 +
\* valueSize(type)) + 2 + instanceFieldCount*(idSize+1), identically whether
\* gcClassDump is registered or absent and whether or not SKIP_VALUES is set.
C30_ClassDumpLength ==
    (pc = "returned" /\ shape.tag = GC_CLASS_DUMP) =>
        /\ subSum = ClassLength(shape.class, idSize)
        /\ Cursor(buffer) = subSum
        /\ subSum = shape.size

\* a class dump with two constant-pool items, two static fields and two
\* instance fields was skipped without gcClassDump under SKIP_VALUES
C30_Witness ==
    /\ pc = "returned"
    /\ shape.tag = GC_CLASS_DUMP
    /\ "gcClassDump" \notin vis.hd
    /\ skipValues
    /\ Len(shape.class.pool) = 2
    /\ idSize = 8
    /\ subSum = 139

\* the same class dump was parsed for gcClassDump with its values read
C30_Parsed ==
    /\ pc = "returned"
    /\ shape.tag = GC_CLASS_DUMP
    /\ "gcClassDump" \in vis.hd
    /\ ~skipValues
    /\ Len(shape.class.pool) = 2
    /\ Len(chunks) > 1
    /\ Len(log) = 1

\* the callback each dump sub-record is handed to
DumpCallback ==
    (GC_INSTANCE_DUMP :> "gcInstanceDump") @@ (GC_OBJ_ARRAY_DUMP :> "gcObjArrayDump") @@
    (GC_PRIM_ARRAY_DUMP :> "gcPrimArrayDump")

\* 1 + 2*idSize + 8 + nBytes, 1 + idSize*(2+n) + 8, 1 + idSize + 9 + n*size
DumpLength(tag, n, t, ids) ==
    CASE tag = GC_INSTANCE_DUMP -> 1 + 2 * ids + 8 + n
      [] tag = GC_OBJ_ARRAY_DUMP -> 1 + ids * (2 + n) + 8
      [] tag = GC_PRIM_ARRAY_DUMP -> 1 + ids + 9 + n * SizeOfType(t, ids)

\* C31: for GC_INSTANCE_DUMP, GC_OBJ_ARRAY_DUMP and GC_PRIM_ARRAY_DUMP the
\* length returned equals the bytes actually advanced and equals
\* respectively 1 + 2*idSize + 8 + nBytes, 1 + idSize*(2+n) + 8 and
\* 1 + idSize + 9 + n*valueSize(t), identically whether the sub-record's
\* callback is registered or absent.
C31_DumpLengths ==
    (pc = "returned" /\ shape.tag \in DOMAIN DumpCallback) =>
        /\ subSum = DumpLength(shape.tag, shape.n, shape.type, idSize)
        /\ Cursor(buffer) = subSum
        /\ subSum = shape.size
        /\ IF DumpCallback[shape.tag] \in vis.hd
           THEN Len(log) = 1 /\ log[1].cb = DumpCallback[shape.tag]
           ELSE log = <<>>

\* an object array of three 8-byte elements was skipped without
\* gcObjArrayDump, over several chunks
C31_Witness ==
    /\ pc = "returned"
    /\ shape.tag = GC_OBJ_ARRAY_DUMP
    /\ "gcObjArrayDump" \notin vis.hd
    /\ shape.n = 3
    /\ idSize = 8
    /\ Len(chunks) > 1
    /\ subSum = 49

\* a primitive array of three LONG values was read for gcPrimArrayDump
C31_PrimRead ==
    /\ pc = "returned"
    /\ shape.tag = GC_PRIM_ARRAY_DUMP
    /\ "gcPrimArrayDump" \in vis.hd
    /\ ~skipValues
    /\ shape.type = Type_LONG
    /\ shape.n = 3
    /\ subSum = 1 + idSize + 9 + 24
    /\ Len(log[1].payload) = 3

\* an instance dump of three field bytes was handed to gcInstanceDump
C31_InstanceRead ==
    /\ pc = "returned"
    /\ shape.tag = GC_INSTANCE_DUMP
    /\ "gcInstanceDump" \in vis.hd
    /\ shape.n = 3
    /\ subSum = 1 + 2 * idSize + 8 + 3

\* C32: skip(n) advances the stream position by exactly n bytes across any
\* number of chunk boundaries, replacing the window with each pulled chunk
\* without concatenating chunks; it fails with EOF exactly when fewer than
\* n bytes remain in the window plus the source, and skip(0) changes
\* nothing.
C32_Skip ==
    [][lastOp'.op = "skip" =>
          IF Unread(buffer) + SourceLeft(buffer) >= lastOp'.n
          THEN /\ buffer'.err = ""
               /\ Cursor(buffer') = Cursor(buffer) + lastOp'.n
               /\ lastOp'.n = 0 => buffer' = buffer
               /\ IF buffer'.next > buffer.next
                  THEN /\ buffer'.base = ChunkStart(chunks, buffer'.next - 1)
                       /\ buffer'.len = chunks[buffer'.next - 1]
                  ELSE buffer'.base = buffer.base /\ buffer'.len = buffer.len
          ELSE buffer'.err = "EOF"]_vars

\* a skip of 8 bytes went through three chunks of 3 bytes, leaving the
\* third as the window
C32_Witness ==
    /\ lastOp.op = "skip"
    /\ lastOp.n = 8
    /\ lastOp.unread = 0
    /\ lastOp.left = 9
    /\ buffer.err = ""
    /\ buffer.len = 3
    /\ buffer.off = 2
    /\ buffer.next = 4

\* a skip failed with fewer bytes left than asked for
C32_Failed ==
    /\ lastOp.op = "skip"
    /\ lastOp.unread + lastOp.left < lastOp.n
    /\ lastOp.unread + lastOp.left > 0
    /\ buffer.err = "EOF"

\* a skip of no bytes
C32_Zero == lastOp.op = "skip" /\ lastOp.n = 0 /\ buffer.len > 0

\* the window holds the stream bytes that end where the source goes on
WindowInStream ==
    buffer.err = "" =>
        /\ buffer.base + buffer.len = ChunkStart(chunks, buffer.next)
        /\ 0 <= buffer.off /\ buffer.off <= buffer.len

\* the operation just made refilled the window
Refilled == lastOp'.ens.err = "" /\ lastOp'.ens.next > buffer.next

\* C33: after any sequence of typed reads, get, skip and take over any
\* chunk split, the bytes returned by get(n) and by typed reads are exactly
\* the stream bytes at the current stream position, in order: a refill
\* builds the new window from the unread tail followed by the newly pulled
\* chunks in pull order, losing and duplicating no byte, and puts the
\* cursor at the start of that tail.
C33_BytesAtPosition ==
    [][/\ WindowInStream'
       /\ (lastOp'.op \in {"ensure", "get", "read", "take"} /\ Refilled) =>
             /\ lastOp'.ens.off = 0
             /\ lastOp'.ens.base = Cursor(buffer)
             /\ lastOp'.ens.len =
                    Unread(buffer)
                    + (ChunkStart(chunks, lastOp'.ens.next) - ChunkStart(chunks, buffer.next))
       /\ (lastOp'.op = "get" /\ buffer'.err = "") =>
             /\ Cursor(lastOp'.ens) = Cursor(buffer)
             /\ Cursor(buffer') = Cursor(buffer) + lastOp'.n
       /\ (lastOp'.op = "read" /\ buffer'.err = "") =>
             /\ Cursor(buffer') = Cursor(buffer) + lastOp'.n
             /\ lastOp'.n <= 4 =>
                    typedRead(buffer, lastOp'.n, "uint").v
                        = <<BE(Cursor(buffer), lastOp'.n, 0)>>]_vars

\* a get refilled the window from an unread tail and two pulled chunks
C33_Witness ==
    /\ lastOp.op = "get"
    /\ buffer.err = ""
    /\ lastOp.unread > 0
    /\ lastOp.unread < lastOp.n
    /\ lastOp.ens.len > lastOp.unread + MIN_READ
    /\ lastOp.ens.off = 0
    /\ buffer.off = lastOp.n
    /\ buffer.next = 4

\* the callback made in this step
Made == log'[Len(log')]

\* a callback of the given name is made in this step
Making(cb) == Len(log') = Len(log) + 1 /\ Made.cb = cb

\* the names end() gives the INSTANCE and OBJ_ARRAY entries are the last
\* bindings of their ids, undefined (<<>>) when there is none
NamesAreLastBindings ==
    Making("end") =>
        \A i \in 1..Len(agg'.entries) :
            agg'.entries[i].type \in {"INSTANCE", "OBJ_ARRAY"} =>
                agg'.entries[i].name = MapGet(agg.classNames, agg'.entries[i].id)

\* C34: loadClass binds classObjId to the string stored under nameId at
\* that moment and binds nothing (and raises no error) when no string is
\* stored; every heapDump callback empties the strings table, so a
\* loadClass delivered after a heap-dump record resolves only against UTF8
\* records delivered after it; INSTANCE and OBJ_ARRAY entries take the
\* last binding for their id and have an undefined name when there is none.
C34_NameResolution ==
    [][/\ Making("loadClass") =>
             IF MapGet(agg.strings, Made.args[4]) # <<>>
             THEN /\ MapGet(agg'.classNames, Made.args[2]) = MapGet(agg.strings, Made.args[4])
                  /\ agg'.strings = agg.strings
             ELSE agg' = agg
       /\ Making("utf8") => MapGet(agg'.strings, Made.args[1]) = Made.payload
       /\ Making("heapDump") => agg'.strings = <<>>
       /\ NamesAreLastBindings]_vars

\* C34 for names that are not the empty string
C34_NonEmptyNames ==
    [][/\ Making("loadClass") =>
             IF MapGet(agg.strings, Made.args[4]) \notin {<<>>, <<"">>}
             THEN /\ MapGet(agg'.classNames, Made.args[2]) = MapGet(agg.strings, Made.args[4])
                  /\ agg'.strings = agg.strings
             ELSE agg' = agg
       /\ Making("utf8") => MapGet(agg'.strings, Made.args[1]) = Made.payload
       /\ Making("heapDump") => agg'.strings = <<>>
       /\ NamesAreLastBindings]_vars

\* end() named the entries of class A after the second of two bindings,
\* made from a string delivered after the heap-dump record
C34_Rebound ==
    /\ pc = "slurped"
    /\ Len(Calls("loadClass")) = 2
    /\ Len(agg.entries) = 2
    /\ \A i \in 1..2 : agg.entries[i].name = <<"Bar">>
    /\ \E i, j, k, l \in 1..Len(log) :
         /\ i < j /\ j < k /\ k < l
         /\ log[i].cb = "loadClass"
         /\ log[j].cb = "heapDump"
         /\ log[k].cb = "utf8" /\ log[k].payload = <<"Bar">>
         /\ log[l].cb = "loadClass"

\* end() left the entries of class A unnamed: the only string was stored
\* before the heap-dump record, the loadClass came after it
C34_Unresolved ==
    /\ pc = "slurped"
    /\ Len(agg.entries) = 2
    /\ \A i \in 1..2 : agg.entries[i].name = <<>>
    /\ \E i, j, k \in 1..Len(log) :
         /\ i < j /\ j < k
         /\ log[i].cb = "utf8" /\ log[i].payload = <<"Foo">>
         /\ log[j].cb = "heapDump"
         /\ log[k].cb = "loadClass" /\ log[k].args[4] = log[i].args[1]

(***************************************************************************)
(* slurp.ts: end(), the walk up the super classes of one instance entry,   *)
(* one turn of the while loop at a time                                    *)
(***************************************************************************)

\* a class id that no class dump carries
ClsD == <<0, 0, 0, 15>>

\* a size beyond this is kept as this (the walk never looks at the size)
MaxSize == 64

\* the instance size each class dump declares
WalkInstSize == (ClsA :> 8) @@ (ClsB :> 16) @@ (ClsC :> 5)

\* the class tables: A, B and C are dumped, each with any super class id
\* (none, A, B, C, or one that was never dumped)
WalkTables ==
    { << [id |-> ClsA, instSize |-> WalkInstSize[ClsA], superClsId |-> sa],
         [id |-> ClsB, instSize |-> WalkInstSize[ClsB], superClsId |-> sb],
         [id |-> ClsC, instSize |-> WalkInstSize[ClsC], superClsId |-> sc] >> :
          sa \in {BigInt(0), ClsA, ClsB, ClsC, ClsD},
          sb \in {BigInt(0), ClsA, ClsB, ClsC, ClsD},
          sc \in {BigInt(0), ClsA, ClsB, ClsC, ClsD} }

\* end() is about to size the entry of one class with dumped instances
InitWalk ==
    /\ stream = <<>>
    /\ chunks = <<>>
    /\ shape = [frames |-> <<>>, framed |-> FALSE, layoutOk |-> FALSE, cut |-> "none",
                ids |-> 0]
    /\ flags = 0
    /\ vis = [gate |-> "absent", rv |-> {}, hdNull |-> TRUE, hd |-> {}]
    /\ buffer = wrap
    /\ pc = "entry"
    /\ idSize = 0
    /\ rec = [superClsId |-> BigInt(0), size |-> -1]
    /\ remaining = 0
    /\ frameEnd = 0
    /\ subSum = 0
    /\ err = ""
    /\ eofAt = "none"
    /\ log = <<>>
    /\ cancels = 0
    /\ lastOp = NoOp
    /\ trail = <<>>
    /\ first = NoRun
    /\ pair = "single"
    /\ \E ids \in IdSizes, table \in WalkTables, id \in {ClsA, ClsB, ClsC, ClsD} :
         agg = [slurp EXCEPT !.idSize = ids, !.classes = table,
                             !.instances = gcInstanceDump(<<>>, id)]

walkKept == <<stream, chunks, flags, vis, shape, buffer, idSize, remaining, frameEnd, subSum,
              err, eofAt, log, cancels, lastOp, trail, first, pair, agg>>

\* size + n, kept at MaxSize
Plus(size, n) == IF size + n > MaxSize THEN MaxSize ELSE size + n

\* const cls = classes.get(id); if (cls) { let size = objectHeader +
\* cls.instSize; let superClsId = cls.superClsId; ...
WalkEnter ==
    /\ pc = "entry"
    /\ IF IndexOf(agg.classes, agg.instances[1].id, 1) = 0
       THEN pc' = "pushed" /\ UNCHANGED rec
       ELSE /\ pc' = "walk"
            /\ rec' = [superClsId |->
                           agg.classes[IndexOf(agg.classes, agg.instances[1].id, 1)].superClsId,
                       size |->
                           Plus(Aligned(agg.idSize + 4, agg.idSize),
                                agg.classes[IndexOf(agg.classes, agg.instances[1].id, 1)].instSize)]
    /\ UNCHANGED walkKept

\* one turn of while (superClsId !== 0n) that finds the super class
WalkStep ==
    /\ pc = "walk"
    /\ rec.superClsId # BigInt(0)
    /\ IndexOf(agg.classes, rec.superClsId, 1) # 0
    /\ rec' = [superClsId |-> agg.classes[IndexOf(agg.classes, rec.superClsId, 1)].superClsId,
               size |-> Plus(rec.size,
                             agg.classes[IndexOf(agg.classes, rec.superClsId, 1)].instSize)]
    /\ UNCHANGED <<pc, walkKept>>

\* the loop is left (superClsId is 0n, or the super class is missing): the
\* size is aligned and the entry pushed
WalkLeave ==
    /\ pc = "walk"
    /\ rec.superClsId = BigInt(0) \/ IndexOf(agg.classes, rec.superClsId, 1) = 0
    /\ rec' = [rec EXCEPT !.size = Plus(Aligned(rec.size, agg.idSize), 0)]
    /\ pc' = "pushed"
    /\ UNCHANGED walkKept

NextWalk == WalkEnter \/ WalkStep \/ WalkLeave

\* end() runs on: each turn of the loop is taken
SpecWalk == InitWalk /\ [][NextWalk]_vars /\ WF_vars(NextWalk)

\* following super-class ids from the class of the instance never comes
\* back to a class
RECURSIVE ChainEnds(_, _)
ChainEnds(id, fuel) ==
    IF id = BigInt(0) \/ IndexOf(agg.classes, id, 1) = 0 THEN TRUE
    ELSE IF fuel = 0 THEN FALSE
    ELSE ChainEnds(agg.classes[IndexOf(agg.classes, id, 1)].superClsId, fuel - 1)

Acyclic == ChainEnds(agg.instances[1].id, Len(agg.classes))

\* C35: the aggregator's end() terminates for every sequence of gcClassDump
\* and gcInstanceDump events, including class tables in which following
\* super-class ids revisits a class (a class recorded as its own super, or
\* a cycle between two classes).
C35_EndTerminates == <>(pc = "pushed")

\* end() terminates when the super-class chain of the instance's class
\* revisits no class
C35_AcyclicTerminates == Acyclic => <>(pc = "pushed")

\* where the walk ends, it has gathered what superSizes gathers
C35_WalkIsSuperSizes ==
    (pc = "pushed" /\ rec.size # -1 /\ rec.size < MaxSize) =>
        rec.size = instanceEntry(agg, agg.instances[1]).largestSize

\* the walk is inside a cycle: back at the class it started from
C35_InCycle ==
    /\ pc = "walk"
    /\ ~Acyclic
    /\ rec.superClsId = agg.instances[1].id
    /\ rec.size = MaxSize

\* the object header end() computes is a multiple of idSize
C36_HeaderAligned ==
    agg.idSize \in IdSizes => Aligned(agg.idSize + 4, agg.idSize) % agg.idSize = 0

\* C36: every size the aggregator aligns is a multiple of idSize: the
\* object header, the largestSize of an INSTANCE entry with a known class,
\* and the largestSize of a PRIM_ARRAY entry, for idSize in {4, 8} and
\* every declared instance size and element count.
C36_AlignedSizes ==
    /\ C36_HeaderAligned
    /\ pc = "slurped" =>
          \A i \in 1..Len(agg.entries) :
              /\ (agg.entries[i].type = "INSTANCE" /\ agg.entries[i].largestSize >= 0) =>
                    agg.entries[i].largestSize % agg.idSize = 0
              /\ agg.entries[i].type = "PRIM_ARRAY" =>
                    agg.entries[i].largestSize % agg.idSize = 0

\* end() gave an instance of a class of declared size 5 a largest size
\* that is no multiple of idSize
C36_Unaligned ==
    /\ pc = "slurped"
    /\ \E i \in 1..Len(agg.entries) :
         /\ agg.entries[i].type = "INSTANCE"
         /\ agg.entries[i].largestSize > 0
         /\ agg.entries[i].largestSize % agg.idSize # 0

\* C37: for every entry with known sizes (totalSize >= 0), largestSize <=
\* totalSize: the estimated size of the largest single object never exceeds
\* the estimated total size of all objects aggregated under the same key.
C37_LargestWithinTotal ==
    pc = "slurped" =>
        \A i \in 1..Len(agg.entries) :
            agg.entries[i].totalSize >= 0 =>
                agg.entries[i].largestSize <= agg.entries[i].totalSize

\* C37 for the INSTANCE and OBJ_ARRAY entries
C37_InstancesAndObjArrays ==
    pc = "slurped" =>
        \A i \in 1..Len(agg.entries) :
            (agg.entries[i].type # "PRIM_ARRAY" /\ agg.entries[i].totalSize >= 0) =>
                agg.entries[i].largestSize <= agg.entries[i].totalSize

\* end() gave a single primitive array a largest size above its total size
C37_LargestAboveTotal ==
    /\ pc = "slurped"
    /\ Len(agg.entries) = 1
    /\ agg.entries[1].type = "PRIM_ARRAY"
    /\ agg.entries[1].count = 1
    /\ agg.entries[1].largestSize > agg.entries[1].totalSize


\* decoder.decode(bytes) for the letters the streams hold
CharOf == (97 :> "a") @@ (98 :> "b")

RECURSIVE decode(_)
decode(bytes) ==
    IF bytes = <<>> THEN ""
    ELSE (IF Head(bytes) \in DOMAIN CharOf THEN CharOf[Head(bytes)] ELSE "?")
             \o decode(Tail(bytes))

\* an identifier as slurp keeps it: a bigint, whatever the identifier size
IdKey(v) == IF Len(v) = 1 THEN BigInt(v[1]) ELSE v

\* the visitor of slurp() receiving one callback of read()
Received(a, c) ==
    CASE c.cb = "header" -> [a EXCEPT !.idSize = c.args[1][1]]
      [] c.cb = "utf8" ->
            utf8(a, IdKey(c.args[1]),
                 decode(SubSeq(stream, c.payload[1][1] + 1,
                               c.payload[1][1] + c.payload[1][2])))
      [] c.cb = "loadClass" -> loadClass(a, IdKey(c.args[2]), IdKey(c.args[4]))
      [] c.cb = "heapDump" -> heapDump(a)
      [] c.cb = "gcClassDump" ->
            gcClassDump(a, IdKey(c.args[1]), IdKey(c.args[3]), c.args[7][1])
      [] c.cb = "gcInstanceDump" ->
            [a EXCEPT !.instances = gcInstanceDump(@, IdKey(c.args[3]))]
      [] c.cb = "gcObjArrayDump" ->
            [a EXCEPT !.objArrays = gcObjArrayDump(@, IdKey(c.args[3]), c.payload)]
      [] c.cb = "gcPrimArrayDump" ->
            [a EXCEPT !.primArrays = gcPrimArrayDump(@, c.args[3][1], c.payload)]
      [] c.cb = "end" -> end(a)
      [] OTHER -> a

\* the visitor of slurp() after the callbacks of one call of read()
RECURSIVE Slurped(_, _)
Slurped(a, calls) ==
    IF calls = <<>> THEN a ELSE Slurped(Received(a, Head(calls)), Tail(calls))

\* both calls of read() were given the visitor of slurp(), the second with
\* SKIP_VALUES
SlurpedTwice == BothSettled /\ pair = "flags" /\ vis = slurpCallbacks

\* C38: slurp() over the same stream with and without SKIP_VALUES yields
\* the same entries (keys, names, counts, element counts, totalSize and
\* largestSize).
C38_SkipValuesSameEntries ==
    SlurpedTwice =>
        /\ Slurped(slurp, first.log).hasEntries = Slurped(slurp, log).hasEntries
        /\ Slurped(slurp, first.log).entries = Slurped(slurp, log).entries

\* C38 for a source that delivers the stream in one chunk
C38_SameEntriesOneChunk ==
    (SlurpedTwice /\ Len(chunks) = 1) =>
        /\ Slurped(slurp, first.log).hasEntries = Slurped(slurp, log).hasEntries
        /\ Slurped(slurp, first.log).entries = Slurped(slurp, log).entries

\* both calls resolved over a well-formed stream in one chunk, and the
\* entries hold an object array with its element
C38_ArraysCounted ==
    /\ SlurpedTwice
    /\ Len(chunks) = 1
    /\ WellFormed
    /\ pc = "done"
    /\ \E i \in 1..Len(Slurped(slurp, log).entries) :
        /\ Slurped(slurp, log).entries[i].type = "OBJ_ARRAY"
        /\ Slurped(slurp, log).entries[i].elemCount = 1

\* the second call of read() was given the visitor of the first with its
\* absent properties holding undefined
UndefinedTwice == BothSettled /\ pair = "undefined"

\* C39: a record visitor or heap-dump visitor whose callback property is
\* present but holds undefined is handled like one where the property is
\* absent: the body or sub-record is consumed to its full length (forwarded
\* to raw or skipped), no error is raised and the following records are
\* decoded in sync, so both calls end alike, read the frames at the same
\* positions and make the same callbacks. Stated for the streams that are
\* well-formed and arrive in one chunk, where no read runs out of bytes.
C39_UndefinedLikeAbsent ==
    (UndefinedTwice /\ WellFormed /\ Len(chunks) = 1) =>
        /\ SameOutcome
        /\ first.trail = trail
        /\ first.log = log

\* C39 for streams of heap-dump records and records without a per-tag
\* callback, given a record visitor that holds no function: heapDump holding
\* undefined and heapDump absent both skip the body
C39_UndefinedHeapDumpSkipped ==
    (/\ UndefinedTwice
     /\ vis.rv \cap (AllTags \cup {"raw"}) = {}
     /\ \A i \in 1..Len(shape.frames) :
            shape.frames[i].tag \in {HEAP_DUMP, HEAP_DUMP_SEGMENT, HEAP_DUMP_END})
        => (SameOutcome /\ first.trail = trail /\ first.log = log)

\* a heap-dump record was skipped by both calls, which went on to a second frame
C39_HeapDumpSkipped ==
    /\ UndefinedTwice
    /\ vis.rv \cap (AllTags \cup {"raw"}) = {}
    /\ Len(shape.frames) = 2
    /\ shape.frames[1].tag = HEAP_DUMP
    /\ shape.frames[2].tag = HEAP_DUMP_END
    /\ WellFormed
    /\ Len(trail) = 2
    /\ first.trail = trail
    /\ pc = "done"

\* a root sub-record whose callback property holds undefined: the call
\* rejects where the absent property let the sub-record be skipped
C39_RootRejected ==
    /\ UndefinedTwice
    /\ Len(chunks) = 1
    /\ WellFormed
    /\ first.pc = "done"
    /\ pc = "rejected"
    /\ err = NotAFunction

\* the window (where the view starts in the stream, and its length) and the offset
Window(b) == <<b.base, b.len, b.off>>

\* the operation just applied: a typed read, get or skip
Moving == lastOp'.op \in {"read", "get", "skip"}

\* C40: between buffer operations 0 <= offset <= window length holds, every
\* successful typed read, get(n) or skip(n) with n >= 0 moves the stream
\* position forward by exactly its width, and an operation that fails with
\* EndOfStream leaves the window and offset as they were before it.
C40_CursorInvariant ==
    [][/\ 0 <= buffer'.off /\ buffer'.off <= buffer'.len
       /\ (Moving /\ buffer'.err = "") => Cursor(buffer') = Cursor(buffer) + lastOp'.n
       /\ buffer'.err = "EOF" => Window(buffer') = Window(buffer)]_vars

\* C40 without skip and take among the failing operations: ensure, and with
\* it get and the typed reads, throws before it touches view or offset
C40_EnsureFailsInPlace ==
    [][/\ 0 <= buffer'.off /\ buffer'.off <= buffer'.len
       /\ (Moving /\ buffer'.err = "") => Cursor(buffer') = Cursor(buffer) + lastOp'.n
       /\ (buffer'.err = "EOF" /\ lastOp'.op \in {"ensure", "get", "read"})
              => Window(buffer') = Window(buffer)]_vars

\* a typed read of 8 bytes refilled the window and moved the position by 8
C40_ReadAcrossRefill ==
    /\ lastOp.op = "read"
    /\ lastOp.n = 8
    /\ lastOp.unread < 8
    /\ lastOp.unread > 0
    /\ buffer.err = ""
    /\ buffer.off = 8
    /\ Cursor(buffer) = Cursor(lastOp.ens) + 8

\* a get failed with unread bytes in the window, which it left in place
C40_GetFailedInPlace ==
    /\ lastOp.op = "get"
    /\ lastOp.unread > 0
    /\ buffer.err = "EOF"
    /\ Unread(buffer) = lastOp.unread

\* a skip failed after it had replaced a window holding unread bytes by the
\* last chunk of the source
C40_SkipLostWindow ==
    /\ lastOp.op = "skip"
    /\ lastOp.unread > 0
    /\ lastOp.left > 0
    /\ buffer.err = "EOF"
    /\ buffer.off = 0
    /\ buffer.len # lastOp.unread

\* a take failed after it had consumed bytes of the window
C40_TakeConsumed ==
    /\ lastOp.op = "take"
    /\ lastOp.unread > 0
    /\ buffer.err = "EOF"
    /\ Unread(buffer) < lastOp.unread
====
